---- MODULE Spec2Model ----
(***************************************************************************)
(* Verification model of the diversified-rewards-token distribution bot.   *)
(*                                                                         *)
(* Several state machines share this module:                               *)
(*   Spec         the cycle orchestrator of src/index.js (main,            *)
(*                runDistribution, retryOperation) together with the       *)
(*                payout-asset cursor of distributeRewards;                *)
(*   SpecHolders  one call of distributeToHolders (services/distribution); *)
(*   SpecWithdraw one call of withdrawFees (services/token);               *)
(*   SpecRewards  one call of distributeRewards;                           *)
(*   SpecAta      the settlement-account cache of distributeToHolders;     *)
(*   SpecRetry    one call of a retry primitive.                           *)
(*                                                                         *)
(* src/index.js and src/services/token.js each hold two revisions of the   *)
(* same file.  The revision in force is a variable fixed by Init, so that  *)
(* every property is checked against both.                                 *)
(***************************************************************************)
EXTENDS Integers, Sequences, FiniteSets, TLC

VARIABLES
  \* ---- cycle orchestrator (index.js) ----
  indexRev,            \* "A": index.js lines 1-136, "B": index.js lines 138-288
  accumulatedAmount,   \* index.js:45 / index.js:182
  currentOutputIndex,  \* distribution.js:29 (0-based, as in the source)
  started,             \* number of runDistribution invocations made so far
  run,                 \* run[c]: the local state of the c-th invocation
  ev,                  \* the step taken last (what it did, for whom)
  unpooled,            \* ledger: what withdrawFees returned so far, less what
                       \* the pools of the passed gates took
  \* ---- one call of distributeToHolders (distribution.js) ----
  holders,             \* argument: the enumerated holders, in order
  amount,              \* argument: the pool to distribute
  isBtc,               \* distribution.js:114
  isSolOutput,         \* argument
  hpc,                 \* where the call is: "idle", "loop", "finalBatch",
                       \* "retry", "done", "thrown"
  holderIndex,         \* number of holders the first-pass loop has consumed
  totalDistributed,    \* distribution.js:139
  instructionsCount,   \* distribution.js:116
  batchTx,             \* transfer instructions of the batch being filled
  failedHolders,       \* distribution.js:117
  retryIndex,          \* number of failedHolders entries the second pass consumed
  assigned,            \* history: every {holder, share} added to totalDistributed
  sent,                \* history: every transaction submitted, with its outcome
  clampedAt,           \* history: first holder whose share hit the clamp (0: none)
  \* ---- one call of withdrawFees (token.js) ----
  tokenRev,            \* "A": token.js lines 1-305, "B": token.js lines 308-480
  wpc,                 \* where the call is: "idle", "start", "harvesting",
                       \* "withdrawing", "done"
  tokenAccounts,       \* number of token accounts getTokenHolders returned
  harvest,             \* harvest[b]: the transaction of harvest batch b
  withdrawTx,          \* the withdraw-from-mint transaction
  wresult,             \* what the call delivered to its caller
  acctWithheld,        \* ledger: fees withheld in each token account
  mintWithheld,        \* ledger: fees harvested to the mint
  destBalance,         \* ledger: balance of the destination token account
  initialAmount,       \* token.js:187 / token.js:399
  \* ---- one call of distributeRewards (distribution.js) ----
  rpc,                 \* where the call is: "idle", "start", "swap", "verify",
                       \* "treasury", "holders", "done", "thrown"
  beforeAmount,        \* distribution.js:542
  afterAmount,         \* distribution.js:586
  rerror,              \* why the call threw ("none" while it has not)
  rewardRev,           \* which revision of distributeRewards runs: "M"
                       \* (services/distribution.js), "P1" (part_001), "P3"
                       \* (part_003)
  treasuryTx,          \* history: the treasury transactions the call handed to
                       \* the ledger, with the number of holder batches
                       \* submitted before each
  \* ---- settlement accounts in one call of distributeToHolders ----
  distRev,             \* "M": src/services/distribution.js, "P2": unnamed/part_002,
                       \* "P3": unnamed/part_003 lines 327-730
  apass,               \* 1: the loop over holders, 2: the loop over failedHolders
  aidx,                \* entries of the current loop already dealt with
  apc,                 \* where the current iteration is: "lookup", "check",
                       \* "create", "reread", "explicit", "reread2", "add";
                       \* or "finalBatch", "done", "thrown", "idle"
  createCalls,         \* creations invoked for the current holder in this pass
  lookedUp,            \* what the lookup of the current iteration found
  solLow,              \* solBalance < 0.0025 * 1e9 (read once per call)
  tokenAccountsCache,  \* the in-memory mapping holder -> base58 address
  cacheFile,           \* the mapping as the JSON file holds it
  created,             \* holders whose mapping this call has set and saved
  ataLedger,           \* ledger: state of each holder's associated token account
  afailed,             \* failedHolders (the holders queued)
  abatch,              \* holders with a transfer instruction in batchTx
  aev,                 \* the step taken last
  \* ---- one call of a retry primitive ----
  primitive,           \* which one: "retryOperation" (services/distribution.js),
                       \* "retryOperationIndex" (index.js), "fetchWithRetry",
                       \* "fetchWithRetryB" (token.js line 322),
                       \* "sendAndConfirmWithRetry",
                       \* "sendAndConfirmVersionedTxWithRetry"
  tpc,                 \* "start", "try", "submit", "finalLookup"; "returned",
                       \* "returnedNull", "threw"; or "idle"
  attempt,             \* the loop counter
  lastSignature,       \* "null", "submitted" (the signature of a submission),
                       \* "fallback" (tx.signatures[0] of swap.js line 89)
  sigStatus,           \* what the ledger holds for lastSignature: "none",
                       \* "pending", "confirmed", "failed"
  invocations,         \* operation() calls, fetch requests, sendTransaction calls
  tev,                 \* the step taken last
  earlierPending,      \* ledger: submissions of the call that a later one
                       \* replaced as lastSignature and that can still land
  executedCount,       \* ledger: submissions of the call executed so far
  \* ---- one call of getTokenHolders (token.js) ----
  fetchRev,            \* "A": token.js lines 122-167, "B": token.js lines 339-380
  fpc,                 \* "idle", "fetching", "returned", "thrown"
  page,                \* token.js:144 / token.js:342
  requested,           \* history: the page numbers requested, in order
  pageLengths,         \* history: the length of each page received
  allHolders           \* token.js:143 / token.js:340: entries <<page, k>>

cycleVars ==
  <<indexRev, accumulatedAmount, currentOutputIndex, started, run, ev, unpooled>>

holderVars ==
  <<holders, amount, isBtc, isSolOutput, hpc, holderIndex, totalDistributed,
    instructionsCount, batchTx, failedHolders, retryIndex, assigned, sent,
    clampedAt>>

withdrawVars ==
  <<tokenRev, wpc, tokenAccounts, harvest, withdrawTx, wresult, acctWithheld,
    mintWithheld, destBalance, initialAmount>>

rewardVars == <<rpc, beforeAmount, afterAmount, rerror, rewardRev, treasuryTx>>

ataVars ==
  <<distRev, apass, aidx, apc, createCalls, lookedUp, solLow, tokenAccountsCache,
    cacheFile, created, ataLedger, afailed, abatch, aev>>

retryVars ==
  <<primitive, tpc, attempt, lastSignature, sigStatus, invocations, tev,
    earlierPending, executedCount>>

pageVars == <<fetchRev, fpc, page, requested, pageLengths, allHolders>>

vars == <<cycleVars, holderVars, withdrawVars, rewardVars, ataVars, retryVars, pageVars>>

----------------------------------------------------------------------------
\* Bounds of the model.

\* runDistribution invocations in one behaviour (initial run + interval ticks)
MaxCycles == 3
\* withdrawFees returns k * WithdrawStep whole tokens, k in 0..MaxWithdrawSteps
MaxWithdrawSteps == 2
WithdrawStep == 15
\* getDrtPriceInUsd returns a price in 1..MaxPrice (USD per whole token)
MaxPrice == 2
\* the fallback price of getDrtPriceInUsd (price.js line 38), on that scale
FALLBACK_PRICE == 1

\* distributeToHolders: at most MaxHolders holders, each with a balance in
\* 1..MaxBalance base units, a pool of 0..MaxPool base units
MaxHolders == 4
MaxBalance == 7
MaxPool == 5
\* DOLLARS_THRESHOLD of unnamed/part_001 line 361, on the price scale above
DOLLARS_THRESHOLD == 3
\* Scale of the share arithmetic: TOTAL_SUPPLY (10^18 in config/constants.js),
\* BATCH_SIZE (19 there) and the significand width of a JavaScript Number
\* (53 bits) are scaled down together with the balances.
TOTAL_SUPPLY == 9
BATCH_SIZE == 2
MantBits == 4

\* withdrawFees: at most MaxAccounts token accounts, each with 0..MaxWithheld
\* withheld fee units; the harvest batch size (25 and 20 in token.js) is
\* scaled down with them.
MaxAccounts == 4
MaxWithheld == 1

\* The most the destination account holds when withdrawFees is entered.
MaxDestBalance == 1
HARVEST_BATCH_SIZE == 2

\* distributeRewards: the balance of the payout asset is 0..MaxBefore before
\* the swap and 0..MaxAfter after it; the holder list it is called with has
\* at most MaxRewardHolders entries.
MaxBefore == 2
MaxAfter == 4
MaxRewardHolders == 2

\* Settlement accounts: the call has MaxAtaHolders holders with a positive
\* share.
MaxAtaHolders == 2

----------------------------------------------------------------------------
\* Program constants.

MAX_RETRIES_CREATE == 3

FETCH_RETRIES == 5

FETCH_RETRIES_B == 3

BASE58_RADIX == 58

MAX_RETRIES_SEND == 5

MINIMUM_USD_VALUE_A == 50
MINIMUM_USD_VALUE_B == 20
MAX_RETRIES_INDEX == 3
OUTPUT_MINTS == <<"USDC", "wBTC", "wETH", "SOL">>

MINIMUM_USD_VALUE(rev) == IF rev = "A" THEN MINIMUM_USD_VALUE_A ELSE MINIMUM_USD_VALUE_B

Cycles == 1..MaxCycles
Amounts == {k * WithdrawStep : k \in 0..MaxWithdrawSteps}
Prices == 1..MaxPrice

----------------------------------------------------------------------------
\* The cycle orchestrator.

\* What `await withdrawFees(withdrawAuthority)` can deliver to runDistribution:
\* an amount (final - initial), an exception (token.js revision A lets the
\* failure of a harvest or of the withdrawal propagate), or 0n after the
\* failure was caught inside withdrawFees (token.js revision B, line 451-454).
WithdrawResults ==
  [kind : {"value"}, amount : Amounts]
    \cup {[kind |-> "throw", amount |-> 0], [kind |-> "caught", amount |-> 0]}

\* withdrawnAmount as runDistribution sees it after its try/catch around
\* withdrawFees: the variable keeps its initial 0n when the call threw.
WithdrawnAmountOf(res) == IF res.kind = "throw" THEN 0 ELSE res.amount

\* (Number(amount) / 10 ** drtDecimals) * drtPriceUsd, for an amount counted in
\* whole tokens (multiples of 10 ** drtDecimals base units) and an integral
\* price: both conversions are exact on these inputs.
UsdValue(tokens, price) == tokens * price

\* The locals of one runDistribution invocation.  carryIn, advanced and zeroed
\* record what the invocation has seen and done so far: the carry when it was
\* invoked (kept until its gate), how often it advanced currentOutputIndex,
\* whether it has executed `accumulatedAmount = 0n`.
\* holdersFailed, price and priceFallback are what the invocation got from
\* getTokenHolders and getDrtPriceInUsd (kept until its gate); rejected tells
\* whether the promise of the invocation was rejected; swaps and payouts count
\* the attempts of the invocation in which performJupiterSwap was confirmed
\* and in which distributeToHolders was entered.
IdleRun ==
  [pc |-> "notStarted", totalAmount |-> 0, attempt |-> 0,
   carryIn |-> 0, advanced |-> 0, zeroed |-> FALSE,
   holdersFailed |-> FALSE, price |-> 0, priceFallback |-> FALSE,
   rejected |-> FALSE, swaps |-> 0, payouts |-> 0]

DoneRun == [IdleRun EXCEPT !.pc = "done"]

\* The last step: which invocation took it, and what it read and decided.
NoEvent ==
  [kind |-> "none", cycle |-> 0, withdrawnAmount |-> 0,
   carryIn |-> 0, carryAtGate |-> 0, advanced |-> 0, swapped |-> FALSE,
   attempts |-> 0, wfFailed |-> FALSE, aloneBelow |-> FALSE, totalBelow |-> FALSE,
   holdersFailed |-> FALSE, price |-> 0, priceFallback |-> FALSE,
   swaps |-> 0, payouts |-> 0, branch |-> "none"]

CycleIdle ==
  /\ indexRev = "B"
  /\ accumulatedAmount = 0
  /\ currentOutputIndex = 0
  /\ started = 0
  /\ run = [c \in Cycles |-> IdleRun]
  /\ ev = NoEvent
  /\ unpooled = 0

InitCycle ==
  /\ indexRev \in {"A", "B"}
  /\ accumulatedAmount = 0
  /\ currentOutputIndex = 0
  /\ started = 0
  /\ run = [c \in Cycles |-> IdleRun]
  /\ ev = NoEvent
  /\ unpooled = 0

\* What `await getDrtPriceInUsd()` delivers (services/price.js lines 3-40):
\* the price of the first pair with a positive priceUsd, or, when anything in
\* its try block threw, the fallback of line 38.  It never rejects.
PriceResults ==
  [fallback : {FALSE}, price : Prices]
    \cup {[fallback |-> TRUE, price |-> FALLBACK_PRICE]}

\* (a runDistribution that gives up when the holders or the price could not
\* be fetched)
RunAfterFetches_Aborts(r, holdersThrew, priceRes) ==
  IF holdersThrew \/ priceRes.fallback
    THEN DoneRun
    ELSE [r EXCEPT !.pc = "withdrawFees", !.price = priceRes.price]

\* The invocation when it awaits withdrawFees: a rejected getTokenHolders was
\* caught (index.js lines 54-57 and 191-194, holders = []), the price is the
\* one getDrtPriceInUsd returned.
RunAfterFetches(r, holdersThrew, priceRes) ==
  [r EXCEPT !.pc = "withdrawFees", !.holdersFailed = holdersThrew,
            !.price = priceRes.price, !.priceFallback = priceRes.fallback]

\* main: the initial run is awaited before setInterval is armed; after that the
\* timer invokes runDistribution every DISTRIBUTION_INTERVAL, whether or not
\* the previous invocation has returned.  The invocation fetches the holders
\* and the price and calls withdrawFees; it touches no shared variable on the
\* way.
StartRun(c) ==
  /\ c = started + 1
  /\ c \in Cycles
  /\ run[c].pc = "notStarted"
  /\ c > 1 => run[1].pc = "done"
  /\ started' = c
  /\ \E holdersThrew \in BOOLEAN, priceRes \in PriceResults :
       /\ run' = [run EXCEPT ![c] =
                    RunAfterFetches([IdleRun EXCEPT !.carryIn = accumulatedAmount],
                                    holdersThrew, priceRes)]
       /\ ev' = [NoEvent EXCEPT !.kind = "start", !.cycle = c,
                                !.holdersFailed = holdersThrew,
                                !.price = priceRes.price,
                                !.priceFallback = priceRes.fallback]
  /\ UNCHANGED <<indexRev, unpooled, accumulatedAmount, currentOutputIndex>>
  /\ UNCHANGED <<holderVars, withdrawVars, rewardVars, ataVars, retryVars, pageVars>>

\* The amount the gate of runDistribution compares with MINIMUM_USD_VALUE.
GateAmount(rev, withdrawnAmount, totalAmount) ==
  IF rev = "A" THEN withdrawnAmount ELSE totalAmount

\* distributeRewards, first two statements: pick the payout asset and advance
\* the cursor.
NextOutputIndex(i) == (i + 1) % Len(OUTPUT_MINTS)

BelowMinimum(rev, tokens, price) == UsdValue(tokens, price) < MINIMUM_USD_VALUE(rev)

\* What the gate step writes to ev.
GateEvent(kind, c, res, price) ==
  LET w == WithdrawnAmountOf(res)
      total == w + accumulatedAmount
  IN [NoEvent EXCEPT !.kind = kind, !.cycle = c,
                     !.withdrawnAmount = w, !.carryIn = run[c].carryIn,
                     !.carryAtGate = accumulatedAmount,
                     !.wfFailed = (res.kind # "value"),
                     !.aloneBelow = BelowMinimum(indexRev, w, price),
                     !.totalBelow = BelowMinimum(indexRev, total, price),
                     !.holdersFailed = run[c].holdersFailed,
                     !.price = price,
                     !.priceFallback = run[c].priceFallback]

\* (a below-threshold branch without its `return`: the invocation goes on into
\* retryOperation and distributeRewards)
RunAfterSkip_NoReturn(r, total) ==
  [r EXCEPT !.pc = "distributeRewards", !.totalAmount = total, !.attempt = 1]

\* The invocation after `return` in the below-threshold branch.
RunAfterSkip(r, total) == DoneRun

\* (a below-threshold branch that stores the fresh withdrawal only)
CarryOnSkip_WithdrawnOnly(withdrawnAmount, carry) == withdrawnAmount

\* The carry written by the below-threshold branch.
CarryOnSkip(withdrawnAmount, carry) == withdrawnAmount + carry

\* runDistribution from the return of withdrawFees to the `return` of the
\* below-threshold branch.  No await lies between the read of
\* accumulatedAmount and its assignment, so this is one step.
GateSkip(c) ==
  /\ run[c].pc = "withdrawFees"
  /\ \E res \in WithdrawResults :
       LET w == WithdrawnAmountOf(res)
           total == w + accumulatedAmount
           price == run[c].price
       IN /\ BelowMinimum(indexRev, GateAmount(indexRev, w, total), price)
          /\ accumulatedAmount' = CarryOnSkip(w, accumulatedAmount)
          /\ unpooled' = unpooled + w
          /\ run' = [run EXCEPT ![c] = RunAfterSkip(run[c], total)]
          /\ ev' = GateEvent("skip", c, res, price)
  /\ UNCHANGED <<indexRev, currentOutputIndex, started>>
  /\ UNCHANGED <<holderVars, withdrawVars, rewardVars, ataVars, retryVars, pageVars>>

\* The carry right after a cycle passed the gate: revision A resets it before
\* the distribution (line 88), revision B leaves it until the attempt returned.
CarryOnPass(rev, carry) == IF rev = "A" THEN 0 ELSE carry

\* runDistribution from the return of withdrawFees through a passed gate, into
\* retryOperation and the first call of distributeRewards up to its first
\* await (the cursor is advanced there), or to "No fees to distribute".
GatePass(c) ==
  /\ run[c].pc = "withdrawFees"
  /\ \E res \in WithdrawResults :
       LET w == WithdrawnAmountOf(res)
           total == w + accumulatedAmount
           price == run[c].price
       IN /\ ~BelowMinimum(indexRev, GateAmount(indexRev, w, total), price)
          /\ accumulatedAmount' = CarryOnPass(indexRev, accumulatedAmount)
          /\ unpooled' = unpooled + w - total
          /\ IF total > 0
               THEN /\ currentOutputIndex' = NextOutputIndex(currentOutputIndex)
                    /\ run' = [run EXCEPT ![c] =
                                 [IdleRun EXCEPT !.pc = "distributeRewards",
                                                 !.totalAmount = total,
                                                 !.attempt = 1,
                                                 !.advanced = 1,
                                                 !.zeroed = (indexRev = "A")]]
               ELSE /\ run' = [run EXCEPT ![c] = DoneRun]
                    /\ UNCHANGED currentOutputIndex
          /\ ev' = GateEvent("pass", c, res, price)
  /\ UNCHANGED <<indexRev, started>>
  /\ UNCHANGED <<holderVars, withdrawVars, rewardVars, ataVars, retryVars, pageVars>>

\* What one call of distributeRewards can do before it returns or throws:
\* "ok" (swap confirmed, holders paid), "threwBeforeSwap" (balance read or
\* performJupiterSwap failed), "threwAfterSwap" (the swap confirmed and then
\* the balance delta was <= 0), "threwInHolders" (the swap confirmed, the
\* delta was positive and distributeToHolders threw).
AttemptOutcomes == {"ok", "threwBeforeSwap", "threwAfterSwap", "threwInHolders"}

Swapped(outcome) == outcome # "threwBeforeSwap"

\* Whether the attempt called distributeToHolders (distribution.js:737).
EnteredHolders(outcome) == outcome \in {"ok", "threwInHolders"}

SwapsAfter(r, outcome) == r.swaps + (IF Swapped(outcome) THEN 1 ELSE 0)

PayoutsAfter(r, outcome) == r.payouts + (IF EnteredHolders(outcome) THEN 1 ELSE 0)

\* The carry after retryOperation returned: revision B assigns 0n in both
\* branches of `if (success)`, revision A does not touch it here.
CarryAfterAttempts(rev, carry) == IF rev = "B" THEN 0 ELSE carry

\* What retryOperation returns to runDistribution: `return await operation()`
\* (index.js:160) hands on the value of the operation, and the operation of
\* lines 237-240 is an async arrow function without a return statement; after
\* the last failed attempt it is null (line 165).
RetryOperationValue(outcome) == IF outcome = "ok" THEN "undefined" ELSE "null"

\* `if (success)`, index.js:246: undefined and null are both falsy.
Truthy(value) == value \notin {"undefined", "null"}

\* The branch of lines 246-253 revision B takes once retryOperation returned
\* (revision A does not look at the value).
BranchTaken(rev, kind, outcome) ==
  IF rev = "A" \/ kind = "attemptFailed" THEN "none"
  ELSE IF Truthy(RetryOperationValue(outcome)) THEN "success" ELSE "failure"

EndEvent(kind, c, outcome) ==
  [NoEvent EXCEPT !.kind = kind, !.cycle = c,
                  !.advanced = run[c].advanced,
                  !.swapped = Swapped(outcome),
                  !.swaps = SwapsAfter(run[c], outcome),
                  !.payouts = PayoutsAfter(run[c], outcome),
                  !.branch = BranchTaken(indexRev, kind, outcome),
                  !.attempts = run[c].attempt]

\* retryOperation: the operation returned; runDistribution ends.
AttemptSucceeds(c) ==
  /\ run[c].pc = "distributeRewards"
  /\ accumulatedAmount' = CarryAfterAttempts(indexRev, accumulatedAmount)
  /\ run' = [run EXCEPT ![c] = DoneRun]
  /\ ev' = EndEvent("distributed", c, "ok")
  /\ UNCHANGED <<indexRev, unpooled, currentOutputIndex, started>>
  /\ UNCHANGED <<holderVars, withdrawVars, rewardVars, ataVars, retryVars, pageVars>>

\* retryOperation: the operation threw on an attempt before the last one; wait
\* delayMs.
AttemptThrows(c) ==
  /\ run[c].pc = "distributeRewards"
  /\ run[c].attempt < MAX_RETRIES_INDEX
  /\ \E outcome \in AttemptOutcomes \ {"ok"} :
       /\ run' = [run EXCEPT ![c].pc = "retryDelay",
                             ![c].swaps = SwapsAfter(run[c], outcome),
                             ![c].payouts = PayoutsAfter(run[c], outcome)]
       /\ ev' = EndEvent("attemptFailed", c, outcome)
  /\ UNCHANGED <<indexRev, unpooled, accumulatedAmount, currentOutputIndex, started>>
  /\ UNCHANGED <<holderVars, withdrawVars, rewardVars, ataVars, retryVars, pageVars>>

\* retryOperation: the delay elapsed; the next attempt calls distributeRewards
\* again, which advances the cursor again.
RetryAttempt(c) ==
  /\ run[c].pc = "retryDelay"
  /\ currentOutputIndex' = NextOutputIndex(currentOutputIndex)
  /\ run' = [run EXCEPT ![c].pc = "distributeRewards",
                        ![c].attempt = @ + 1,
                        ![c].advanced = @ + 1]
  /\ ev' = [NoEvent EXCEPT !.kind = "retry", !.cycle = c]
  /\ UNCHANGED <<indexRev, unpooled, accumulatedAmount, started>>
  /\ UNCHANGED <<holderVars, withdrawVars, rewardVars, ataVars, retryVars, pageVars>>

\* (a retryOperation that rethrows, in a runDistribution without try block)
RunAfterExhausted_Rethrows(r) == [DoneRun EXCEPT !.rejected = TRUE]

\* The invocation after the last attempt threw: retryOperation returns null
\* (index.js lines 26-29 and 163-166) and runDistribution runs to its end.
RunAfterExhausted(r) == DoneRun

\* retryOperation: the last attempt threw; it returns null and runDistribution
\* ends.
AttemptsExhausted(c) ==
  /\ run[c].pc = "distributeRewards"
  /\ run[c].attempt = MAX_RETRIES_INDEX
  /\ \E outcome \in AttemptOutcomes \ {"ok"} :
       ev' = EndEvent("exhausted", c, outcome)
  /\ accumulatedAmount' = CarryAfterAttempts(indexRev, accumulatedAmount)
  /\ run' = [run EXCEPT ![c] = RunAfterExhausted(run[c])]
  /\ UNCHANGED <<indexRev, unpooled, currentOutputIndex, started>>
  /\ UNCHANGED <<holderVars, withdrawVars, rewardVars, ataVars, retryVars, pageVars>>

NextCycle ==
  \E c \in Cycles :
    \/ StartRun(c)
    \/ GateSkip(c)
    \/ GatePass(c)
    \/ AttemptSucceeds(c)
    \/ AttemptThrows(c)
    \/ RetryAttempt(c)
    \/ AttemptsExhausted(c)

----------------------------------------------------------------------------
\* JavaScript Number arithmetic, with a significand of MantBits bits.

RECURSIVE Pow2(_)
Pow2(n) == IF n = 0 THEN 1 ELSE 2 * Pow2(n - 1)

RECURSIVE BitLen(_)
BitLen(x) == IF x = 0 THEN 0 ELSE 1 + BitLen(x \div 2)

Max(a, b) == IF a >= b THEN a ELSE b

\* num / den rounded to the nearest integer, ties to the even one.
RoundHalfEven(num, den) ==
  LET q == num \div den
      r == num % den
  IN IF 2 * r < den THEN q
     ELSE IF 2 * r > den THEN q + 1
     ELSE IF q % 2 = 0 THEN q ELSE q + 1

\* Number(x) for a BigInt x >= 0: the nearest value with MantBits significant
\* bits.
ToNumber(x) ==
  IF BitLen(x) <= MantBits THEN x
  ELSE LET unit == Pow2(BitLen(x) - MantBits)
       IN RoundHalfEven(x, unit) * unit

\* a * b for two Numbers with integral values: the exact product, rounded.
FlMul(a, b) == ToNumber(a * b)

\* The largest k with den * 2^k <= num (num >= den > 0).
RECURSIVE Log2Quot(_, _)
Log2Quot(num, den) == IF num < 2 * den THEN 0 ELSE 1 + Log2Quot(num, 2 * den)

\* The smallest j with num * 2^j >= den (0 < num).
RECURSIVE Log2Inv(_, _)
Log2Inv(num, den) == IF num >= den THEN 0 ELSE 1 + Log2Inv(2 * num, den)

\* Math.floor(num / den) for two Numbers with integral values, den > 0: the
\* quotient is rounded to MantBits significant bits before the floor is taken.
FloorFlDiv(num, den) ==
  IF num = 0 THEN 0
  ELSE IF num >= den
    THEN LET k == Log2Quot(num, den)   \* 2^k <= num/den < 2^(k+1)
         IN IF k <= MantBits - 1
              THEN LET sh == Pow2(MantBits - 1 - k)
                   IN RoundHalfEven(num * sh, den) \div sh
              ELSE LET sh == Pow2(k - (MantBits - 1))
                   IN RoundHalfEven(num, den * sh) * sh
    ELSE LET j == Log2Inv(num, den)    \* 2^(-j) <= num/den < 2^(1-j)
             sh == Pow2(MantBits - 1 + j)
         IN RoundHalfEven(num * sh, den) \div sh

----------------------------------------------------------------------------
\* distributeToHolders (services/distribution.js).

HolderIds == 1..MaxHolders

RECURSIVE SumBalances(_)
SumBalances(hs) ==
  IF hs = <<>> THEN 0 ELSE Head(hs).amount + SumBalances(Tail(hs))

HolderLists ==
  UNION {[1..n -> [amount : 1..MaxBalance]] : n \in 0..MaxHolders}

\* (a share without the minimum of one unit for wBTC)
ComputeShare_NoMinimum(balance, pool, btc) ==
  FloorFlDiv(FlMul(ToNumber(balance), ToNumber(pool)), ToNumber(TOTAL_SUPPLY))

\* shareFloat and share, lines 150-152.
ComputeShare(balance, pool, btc) ==
  Max(FloorFlDiv(FlMul(ToNumber(balance), ToNumber(pool)), ToNumber(TOTAL_SUPPLY)),
      IF btc THEN 1 ELSE 0)

\* (a loop without the clamp of lines 155-157)
ClampShare_None(share, distributed, pool) == share

\* "Ensure we don't exceed the total amount", lines 155-157.
ClampShare(share, distributed, pool) ==
  IF distributed + share > pool THEN pool - distributed ELSE share

\* (a loop that never skips a holder for a zero share)
SkipsShare_Never(share) == FALSE

\* `if (share === 0n) continue`, lines 158-161.
SkipsShare(share) == share = 0

\* The share of the holder the loop is looking at.
CurrentShare ==
  ClampShare(ComputeShare(holders[holderIndex + 1].amount, amount, isBtc),
             totalDistributed, amount)

WouldOverflow ==
  totalDistributed + ComputeShare(holders[holderIndex + 1].amount, amount, isBtc)
    > amount

NoteClamp == IF clampedAt = 0 /\ WouldOverflow THEN holderIndex + 1 ELSE clampedAt

\* hShare of lines 305-317 and 379-391: the share recomputed for holders[i],
\* without the clamp.
RequeuedShare(i) == ComputeShare(holders[i].amount, amount, isBtc)

RECURSIVE Requeue(_, _)
\* The entries pushed to failedHolders when a batch of `count` instructions
\* failed: `for (let i = 0; i < instructionsCount; i++) { h = holders[i]; ... }`.
Requeue(i, count) ==
  IF i > count THEN <<>>
  ELSE (IF RequeuedShare(i) > 0
          THEN <<[holder |-> i, share |-> RequeuedShare(i)]>> ELSE <<>>)
       \o Requeue(i + 1, count)

\* retryOperation(sendAndConfirmTransaction, 3, 3000) on a batch: it returns
\* a signature or throws after the third attempt.
BatchOutcomes == {"confirmed", "failed"}

\* Lines 125-134 and 321-330 (403-412 in the second pass): every Transaction
\* starts with the priority-fee and the compute-unit-limit instruction.
BudgetInstructions == <<"setComputeUnitPrice", "setComputeUnitLimit">>

\* A submitted transaction as the history `sent` keeps it: its pass, its
\* instructions, whether it was confirmed, and what its failure pushed to
\* failedHolders.
SentTx(pass, ops, outcome, requeued) ==
  [pass |-> pass, budget |-> BudgetInstructions, ops |-> ops,
   ok |-> (outcome = "confirmed"),
   requeued |-> IF outcome = "confirmed" THEN <<>> ELSE requeued]

HoldersIdle ==
  /\ holders = <<>>
  /\ amount = 0
  /\ isBtc = FALSE
  /\ isSolOutput = FALSE
  /\ hpc = "idle"
  /\ holderIndex = 0
  /\ totalDistributed = 0
  /\ instructionsCount = 0
  /\ batchTx = <<>>
  /\ failedHolders = <<>>
  /\ retryIndex = 0
  /\ assigned = <<>>
  /\ sent = <<>>
  /\ clampedAt = 0

\* The call is entered with any holder list whose balances fit the supply, any
\* pool and any payout asset (wBTC, native SOL, another token).
InitHolders ==
  /\ holders \in {hs \in HolderLists : SumBalances(hs) <= TOTAL_SUPPLY}
  /\ amount \in 0..MaxPool
  /\ isBtc \in BOOLEAN
  /\ isSolOutput \in BOOLEAN
  /\ ~(isBtc /\ isSolOutput)
  /\ hpc = "loop"
  /\ holderIndex = 0
  /\ totalDistributed = 0
  /\ instructionsCount = 0
  /\ batchTx = <<>>
  /\ failedHolders = <<>>
  /\ retryIndex = 0
  /\ assigned = <<>>
  /\ sent = <<>>
  /\ clampedAt = 0

InLoop == hpc = "loop" /\ holderIndex < Len(holders)

\* The statement after the try/catch of the loop body, lines 338-343, and the
\* loop header: where the call is once a holder has been dealt with.
AfterHolder(distributed, nextIndex) ==
  IF distributed >= amount \/ nextIndex >= Len(holders) THEN "finalBatch" ELSE "loop"

\* `continue`: the statement of lines 338-343 is not reached.
AfterContinue(nextIndex) ==
  IF nextIndex >= Len(holders) THEN "finalBatch" ELSE "loop"

HolderInputs == <<holders, amount, isBtc, isSolOutput>>

\* Lines 146-161: the adjusted share is 0, the holder is skipped.
HolderShareZero ==
  /\ InLoop
  /\ SkipsShare(CurrentShare)
  /\ clampedAt' = NoteClamp
  /\ holderIndex' = holderIndex + 1
  /\ hpc' = AfterContinue(holderIndex + 1)
  /\ UNCHANGED <<totalDistributed, instructionsCount, batchTx, failedHolders,
                 retryIndex, assigned, sent>>
  /\ UNCHANGED HolderInputs
  /\ UNCHANGED <<cycleVars, withdrawVars, rewardVars, ataVars, retryVars, pageVars>>

\* Line 163, `totalDistributed += share`; `outcome` records what then became of
\* the holder in this iteration: "added" (its transfer instruction was put in
\* the batch), "invalid" (skipped as no valid destination) or "threw".
AssignShare(outcome) ==
  /\ totalDistributed' = totalDistributed + CurrentShare
  /\ assigned' = Append(assigned, [holder |-> holderIndex + 1, share |-> CurrentShare,
                                   before |-> totalDistributed,
                                   truncated |-> WouldOverflow,
                                   outcome |-> outcome])
  /\ clampedAt' = NoteClamp

\* Lines 163-186: the share is counted, then the holder turns out not to be a
\* valid destination (not system-owned, or not on the curve) and is skipped.
HolderInvalidTarget ==
  /\ InLoop
  /\ ~SkipsShare(CurrentShare)
  /\ AssignShare("invalid")
  /\ holderIndex' = holderIndex + 1
  /\ hpc' = AfterContinue(holderIndex + 1)
  /\ UNCHANGED <<instructionsCount, batchTx, failedHolders, retryIndex, sent>>
  /\ UNCHANGED HolderInputs
  /\ UNCHANGED <<cycleVars, withdrawVars, rewardVars, ataVars, retryVars, pageVars>>

\* Lines 163-267 and 333-336: something between the share and the batch throws
\* (getAccountInfo, the SOL check of line 210, the creation of the associated
\* token account after its retries).  The catch block of line 333 reads
\* `share`, which is declared inside the try block: the ReferenceError leaves
\* the loop and distributeToHolders rejects.
HolderThrows ==
  /\ InLoop
  /\ ~SkipsShare(CurrentShare)
  /\ AssignShare("threw")
  /\ holderIndex' = holderIndex + 1
  /\ hpc' = "thrown"
  /\ UNCHANGED <<instructionsCount, batchTx, failedHolders, retryIndex, sent>>
  /\ UNCHANGED HolderInputs
  /\ UNCHANGED <<cycleVars, withdrawVars, rewardVars, ataVars, retryVars, pageVars>>

NewInstruction == [holder |-> holderIndex + 1, share |-> CurrentShare]

\* (a flush that waits for one instruction more than BATCH_SIZE)
FlushNow_Late ==
  instructionsCount + 1 > BATCH_SIZE \/ totalDistributed + CurrentShare >= amount

\* Line 273, evaluated for the batch with the new instruction in it.
FlushNow ==
  instructionsCount + 1 >= BATCH_SIZE \/ totalDistributed + CurrentShare >= amount

\* Lines 163-272: the transfer instruction is added and the batch is not full.
HolderAdded ==
  /\ InLoop
  /\ ~SkipsShare(CurrentShare)
  /\ ~FlushNow
  /\ AssignShare("added")
  /\ batchTx' = Append(batchTx, NewInstruction)
  /\ instructionsCount' = instructionsCount + 1
  /\ holderIndex' = holderIndex + 1
  /\ hpc' = AfterHolder(totalDistributed', holderIndex + 1)
  /\ UNCHANGED <<failedHolders, retryIndex, sent>>
  /\ UNCHANGED HolderInputs
  /\ UNCHANGED <<cycleVars, withdrawVars, rewardVars, ataVars, retryVars, pageVars>>

\* Lines 163-332: the instruction is added and the batch is submitted.
HolderAddedBatchSent ==
  /\ InLoop
  /\ ~SkipsShare(CurrentShare)
  /\ FlushNow
  /\ AssignShare("added")
  /\ \E outcome \in BatchOutcomes :
       /\ sent' = Append(sent, SentTx(1, Append(batchTx, NewInstruction), outcome,
                                      Requeue(1, instructionsCount + 1)))
       /\ failedHolders' =
            IF outcome = "confirmed" THEN failedHolders
            ELSE failedHolders \o Requeue(1, instructionsCount + 1)
  /\ batchTx' = <<>>
  /\ instructionsCount' = 0
  /\ holderIndex' = holderIndex + 1
  /\ hpc' = AfterHolder(totalDistributed', holderIndex + 1)
  /\ UNCHANGED retryIndex
  /\ UNCHANGED HolderInputs
  /\ UNCHANGED <<cycleVars, withdrawVars, rewardVars, ataVars, retryVars, pageVars>>

\* Lines 273-275 and 333-336: the batch is due and getLatestBlockhash throws;
\* the catch block throws in turn (see HolderThrows).
HolderAddedBlockhashThrows ==
  /\ InLoop
  /\ ~SkipsShare(CurrentShare)
  /\ FlushNow
  /\ AssignShare("threw")
  /\ batchTx' = Append(batchTx, NewInstruction)
  /\ instructionsCount' = instructionsCount + 1
  /\ holderIndex' = holderIndex + 1
  /\ hpc' = "thrown"
  /\ UNCHANGED <<failedHolders, retryIndex, sent>>
  /\ UNCHANGED HolderInputs
  /\ UNCHANGED <<cycleVars, withdrawVars, rewardVars, ataVars, retryVars, pageVars>>

\* An empty holder list: the loop body never runs.
LoopEmpty ==
  /\ hpc = "loop"
  /\ holderIndex >= Len(holders)
  /\ hpc' = "finalBatch"
  /\ UNCHANGED <<holderIndex, totalDistributed, instructionsCount, batchTx,
                 failedHolders, retryIndex, assigned, sent, clampedAt>>
  /\ UNCHANGED HolderInputs
  /\ UNCHANGED <<cycleVars, withdrawVars, rewardVars, ataVars, retryVars, pageVars>>

\* Lines 346-393, "Handle remaining instructions": nothing is left.
FinalBatchEmpty ==
  /\ hpc = "finalBatch"
  /\ instructionsCount = 0
  /\ hpc' = "retry"
  /\ UNCHANGED <<holderIndex, totalDistributed, instructionsCount, batchTx,
                 failedHolders, retryIndex, assigned, sent, clampedAt>>
  /\ UNCHANGED HolderInputs
  /\ UNCHANGED <<cycleVars, withdrawVars, rewardVars, ataVars, retryVars, pageVars>>

\* Lines 346-393: the partial batch is submitted.
FinalBatchSent ==
  /\ hpc = "finalBatch"
  /\ instructionsCount > 0
  /\ \E outcome \in BatchOutcomes :
       /\ sent' = Append(sent, SentTx(1, batchTx, outcome,
                                      Requeue(1, instructionsCount)))
       /\ failedHolders' =
            IF outcome = "confirmed" THEN failedHolders
            ELSE failedHolders \o Requeue(1, instructionsCount)
  /\ hpc' = "retry"
  /\ UNCHANGED <<holderIndex, totalDistributed, instructionsCount, batchTx,
                 retryIndex, assigned, clampedAt>>
  /\ UNCHANGED HolderInputs
  /\ UNCHANGED <<cycleVars, withdrawVars, rewardVars, ataVars, retryVars, pageVars>>

\* Lines 348-349: getLatestBlockhash throws outside any try block.
FinalBatchBlockhashThrows ==
  /\ hpc = "finalBatch"
  /\ instructionsCount > 0
  /\ hpc' = "thrown"
  /\ UNCHANGED <<holderIndex, totalDistributed, instructionsCount, batchTx,
                 failedHolders, retryIndex, assigned, sent, clampedAt>>
  /\ UNCHANGED HolderInputs
  /\ UNCHANGED <<cycleVars, withdrawVars, rewardVars, ataVars, retryVars, pageVars>>

\* Lines 395-524, "Retry failed holders": the next entry is sent as its own
\* transaction; whatever the outcome, the entry is not queued again.
RetryHolder ==
  /\ hpc = "retry"
  /\ retryIndex < Len(failedHolders)
  /\ \E outcome \in BatchOutcomes \cup {"notSubmitted"} :
       sent' = IF outcome = "notSubmitted" THEN sent
               ELSE Append(sent, SentTx(2, <<failedHolders[retryIndex + 1]>>,
                                        outcome, <<>>))
  /\ retryIndex' = retryIndex + 1
  /\ UNCHANGED <<hpc, holderIndex, totalDistributed, instructionsCount, batchTx,
                 failedHolders, assigned, clampedAt>>
  /\ UNCHANGED HolderInputs
  /\ UNCHANGED <<cycleVars, withdrawVars, rewardVars, ataVars, retryVars, pageVars>>

\* Lines 526-529: the call returns.
HoldersDone ==
  /\ hpc = "retry"
  /\ retryIndex >= Len(failedHolders)
  /\ hpc' = "done"
  /\ UNCHANGED <<holderIndex, totalDistributed, instructionsCount, batchTx,
                 failedHolders, retryIndex, assigned, sent, clampedAt>>
  /\ UNCHANGED HolderInputs
  /\ UNCHANGED <<cycleVars, withdrawVars, rewardVars, ataVars, retryVars, pageVars>>

NextHolders ==
  \/ HolderShareZero
  \/ HolderInvalidTarget
  \/ HolderThrows
  \/ HolderAdded
  \/ HolderAddedBatchSent
  \/ HolderAddedBlockhashThrows
  \/ LoopEmpty
  \/ FinalBatchEmpty
  \/ FinalBatchSent
  \/ FinalBatchBlockhashThrows
  \/ RetryHolder
  \/ HoldersDone

----------------------------------------------------------------------------
\* distributeRewards (services/distribution.js, lines 530-745).

RewardsIdle ==
  /\ rpc = "idle"
  /\ beforeAmount = 0
  /\ afterAmount = 0
  /\ rerror = "none"
  /\ rewardRev = "M"
  /\ treasuryTx = <<>>

\* The payout asset of the call, line 531.
OutputMintOf(index) == OUTPUT_MINTS[index + 1]

\* isNativeSol(outputMint), line 533.
IsNativeSol(mint) == mint = "SOL"

\* Line 114 of distributeToHolders.
IsBtcMint(mint) == mint = "wBTC"

\* (a verification that takes the balance after the swap for the amount
\* received)
ReceivedAmount_AfterOnly(before, after) == after

\* Line 600: tokensReceived.
ReceivedAmount(before, after) == after - before

\* Line 604: the holders' part, 80% of what was received.
ToDistribute(received) == (received * 80) \div 100

\* Line 605 (part_001:875, part_003:668): the treasury's part, 17%.
ToTreasury(received) == (received * 17) \div 100

RewardRevisions == {"M", "P1", "P3"}

\* (a revision set in which every revision still has the transfer)
SendsTreasury_Always(rev) == TRUE

\* Whether the revision submits the treasury transfer: part_001:877-927 and
\* part_003:671-723 do, in services/distribution.js the whole of lines 608-672
\* is commented out.
SendsTreasury(rev) == rev \in {"P1", "P3"}

RewardHolderLists ==
  {hs \in UNION {[1..n -> [amount : 1..MaxBalance]] : n \in 0..MaxRewardHolders} :
     SumBalances(hs) <= TOTAL_SUPPLY}

\* The call is entered with the payout cursor anywhere and any holder list;
\* distributeToHolders has not been called.
InitRewards ==
  /\ rpc = "start"
  /\ beforeAmount = 0
  /\ afterAmount = 0
  /\ rerror = "none"
  /\ rewardRev \in RewardRevisions
  /\ treasuryTx = <<>>
  /\ holders \in RewardHolderLists
  /\ amount = 0
  /\ isBtc = FALSE
  /\ isSolOutput = FALSE
  /\ hpc = "idle"
  /\ holderIndex = 0
  /\ totalDistributed = 0
  /\ instructionsCount = 0
  /\ batchTx = <<>>
  /\ failedHolders = <<>>
  /\ retryIndex = 0
  /\ assigned = <<>>
  /\ sent = <<>>
  /\ clampedAt = 0
  /\ indexRev = "B"
  /\ accumulatedAmount = 0
  /\ currentOutputIndex \in 0..(Len(OUTPUT_MINTS) - 1)
  /\ started = 0
  /\ run = [c \in Cycles |-> IdleRun]
  /\ ev = NoEvent
  /\ unpooled = 0

RewardsThrow(why) ==
  /\ rpc' = "thrown"
  /\ rerror' = why

\* Lines 531-574: the cursor advances, the balance of the payout asset is read
\* (0 when the source account had to be created).
RewardsBegin ==
  /\ rpc = "start"
  /\ currentOutputIndex' = NextOutputIndex(currentOutputIndex)
  /\ isSolOutput' = IsNativeSol(OutputMintOf(currentOutputIndex))
  /\ isBtc' = IsBtcMint(OutputMintOf(currentOutputIndex))
  /\ \E balance \in 0..MaxBefore : beforeAmount' = balance
  /\ rpc' = "swap"
  /\ UNCHANGED <<afterAmount, rerror>>
  /\ UNCHANGED <<rewardRev, treasuryTx>>
  /\ UNCHANGED <<holders, amount, hpc, holderIndex, totalDistributed,
                 instructionsCount, batchTx, failedHolders, retryIndex, assigned,
                 sent, clampedAt>>
  /\ UNCHANGED <<indexRev, unpooled, accumulatedAmount, started, run, ev>>
  /\ UNCHANGED <<withdrawVars, ataVars, retryVars, pageVars>>

\* Lines 531-574: getBalance, or getOrCreateAssociatedTokenAccount in the catch
\* block of line 558, throws.
RewardsBeginThrows ==
  /\ rpc = "start"
  /\ currentOutputIndex' = NextOutputIndex(currentOutputIndex)
  /\ RewardsThrow("balance")
  /\ UNCHANGED <<beforeAmount, afterAmount>>
  /\ UNCHANGED <<rewardRev, treasuryTx>>
  /\ UNCHANGED holderVars
  /\ UNCHANGED <<indexRev, unpooled, accumulatedAmount, started, run, ev>>
  /\ UNCHANGED <<withdrawVars, ataVars, retryVars, pageVars>>

\* Lines 576-598: performJupiterSwap returns and the balance is read again.
SwapReturns ==
  /\ rpc = "swap"
  /\ \E balance \in 0..MaxAfter : afterAmount' = balance
  /\ rpc' = "verify"
  /\ UNCHANGED <<beforeAmount, rerror>>
  /\ UNCHANGED <<rewardRev, treasuryTx>>
  /\ UNCHANGED <<cycleVars, holderVars, withdrawVars, ataVars, retryVars, pageVars>>

\* Lines 576-598: performJupiterSwap, or the balance read after it, throws.
SwapThrows ==
  /\ rpc = "swap"
  /\ RewardsThrow("swap")
  /\ UNCHANGED <<beforeAmount, afterAmount>>
  /\ UNCHANGED <<rewardRev, treasuryTx>>
  /\ UNCHANGED <<cycleVars, holderVars, withdrawVars, ataVars, retryVars, pageVars>>

\* Lines 600-601: "Swap failed - no tokens received".
VerifyFails ==
  /\ rpc = "verify"
  /\ ReceivedAmount(beforeAmount, afterAmount) <= 0
  /\ RewardsThrow("noTokens")
  /\ UNCHANGED <<beforeAmount, afterAmount>>
  /\ UNCHANGED <<rewardRev, treasuryTx>>
  /\ UNCHANGED <<cycleVars, holderVars, withdrawVars, ataVars, retryVars, pageVars>>

\* Lines 600-744: the verification passed; distributeToHolders is called with
\* the holders' part (the treasury and side-wallet transfers of lines 608-732
\* are commented out).
VerifyPasses ==
  /\ rpc = "verify"
  /\ ~SendsTreasury(rewardRev)
  /\ ReceivedAmount(beforeAmount, afterAmount) > 0
  /\ amount' = ToDistribute(ReceivedAmount(beforeAmount, afterAmount))
  /\ hpc' = "loop"
  /\ rpc' = "holders"
  /\ UNCHANGED <<beforeAmount, afterAmount, rerror>>
  /\ UNCHANGED <<rewardRev, treasuryTx>>
  /\ UNCHANGED <<holders, isBtc, isSolOutput, holderIndex, totalDistributed,
                 instructionsCount, batchTx, failedHolders, retryIndex, assigned,
                 sent, clampedAt>>
  /\ UNCHANGED <<cycleVars, withdrawVars, ataVars, retryVars, pageVars>>

\* part_001:870-876, part_003:663-669: the verification passed and the
\* treasury transaction is being built.
VerifyPassesTreasury ==
  /\ rpc = "verify"
  /\ SendsTreasury(rewardRev)
  /\ ReceivedAmount(beforeAmount, afterAmount) > 0
  /\ rpc' = "treasury"
  /\ UNCHANGED <<beforeAmount, afterAmount, rerror>>
  /\ UNCHANGED <<rewardRev, treasuryTx>>
  /\ UNCHANGED <<cycleVars, holderVars, withdrawVars, ataVars, retryVars, pageVars>>

TreasuryRecord(confirmed) ==
  [amount    |-> ToTreasury(ReceivedAmount(beforeAmount, afterAmount)),
   batches   |-> Len(sent),
   confirmed |-> confirmed]

\* part_001:881-927 (sendAndConfirmTransaction), part_003:671-723
\* (sendAndConfirmWithRetry; the same transaction carries the dev-wallet
\* transfer): the treasury transaction confirmed, distributeToHolders is
\* called with the holders' part.
TreasurySent ==
  /\ rpc = "treasury"
  /\ treasuryTx' = Append(treasuryTx, TreasuryRecord(TRUE))
  /\ amount' = ToDistribute(ReceivedAmount(beforeAmount, afterAmount))
  /\ hpc' = "loop"
  /\ rpc' = "holders"
  /\ UNCHANGED <<beforeAmount, afterAmount, rerror, rewardRev>>
  /\ UNCHANGED <<holders, isBtc, isSolOutput, holderIndex, totalDistributed,
                 instructionsCount, batchTx, failedHolders, retryIndex, assigned,
                 sent, clampedAt>>
  /\ UNCHANGED <<cycleVars, withdrawVars, ataVars, retryVars, pageVars>>

\* part_001:883-927, part_003:671-723: getLatestBlockhash or
\* getOrCreateAssociatedTokenAccount rejects before the transaction is
\* submitted (submitted = FALSE), or the submitted transaction is not
\* confirmed; either way the call throws and distributeToHolders is not
\* called.
TreasuryThrows ==
  /\ rpc = "treasury"
  /\ \E submitted \in BOOLEAN :
       treasuryTx' = IF submitted THEN Append(treasuryTx, TreasuryRecord(FALSE))
                                  ELSE treasuryTx
  /\ RewardsThrow("treasury")
  /\ UNCHANGED <<beforeAmount, afterAmount, rewardRev>>
  /\ UNCHANGED <<cycleVars, holderVars, withdrawVars, ataVars, retryVars, pageVars>>

\* Line 737-745: distributeToHolders returned.
RewardsReturn ==
  /\ rpc = "holders"
  /\ hpc = "done"
  /\ rpc' = "done"
  /\ UNCHANGED <<beforeAmount, afterAmount, rerror>>
  /\ UNCHANGED <<rewardRev, treasuryTx>>
  /\ UNCHANGED <<cycleVars, holderVars, withdrawVars, ataVars, retryVars, pageVars>>

\* Line 737: distributeToHolders rejected.
RewardsHoldersThrow ==
  /\ rpc = "holders"
  /\ hpc = "thrown"
  /\ RewardsThrow("holders")
  /\ UNCHANGED <<beforeAmount, afterAmount>>
  /\ UNCHANGED <<rewardRev, treasuryTx>>
  /\ UNCHANGED <<cycleVars, holderVars, withdrawVars, ataVars, retryVars, pageVars>>

NextRewards ==
  \/ RewardsBegin
  \/ RewardsBeginThrows
  \/ SwapReturns
  \/ SwapThrows
  \/ VerifyFails
  \/ VerifyPasses
  \/ VerifyPassesTreasury
  \/ TreasurySent
  \/ TreasuryThrows
  \/ RewardsReturn
  \/ RewardsHoldersThrow
  \/ NextHolders

----------------------------------------------------------------------------
\* sendAndConfirmWithRetry and withdrawFees (services/token.js).

\* One transaction handed to sendAndConfirmWithRetry: `attempt` is the loop
\* counter, `last` what the ledger says about lastSignature ("null" while there
\* is none), `executed` the number of submissions of it that the ledger
\* executed.
TxIdle == [st |-> "notStarted", attempt |-> 0, last |-> "null", executed |-> 0]

TxStarted == [TxIdle EXCEPT !.st = "sending", !.attempt = 1]

\* What one pass through the try block (lines 49-89) can meet:
\*   "confirmed"     sent and confirmed without error;
\*   "sendFailed"    sendTransaction threw, there is no new signature;
\*   "unconfirmed"   sent, confirmTransaction threw, the ledger has not executed it;
\*   "landedLate"    sent, confirmTransaction threw, the ledger executed it all the same;
\*   "confirmedErr"  sent, confirmation.value.err is set.
SendOutcomes == {"confirmed", "sendFailed", "unconfirmed", "landedLate", "confirmedErr"}

LastAfter(t, outcome) ==
  CASE outcome = "sendFailed" -> t.last
    [] outcome = "unconfirmed" -> "unconfirmed"
    [] outcome = "confirmedErr" -> "failed"
    [] OTHER -> "confirmed"

ExecutedAfter(t, outcome) ==
  IF outcome \in {"confirmed", "landedLate"} THEN t.executed + 1 ELSE t.executed

\* (a sendAndConfirmWithRetry that reports exhaustion by returning null)
ExhaustedOutcome_ReturnsNull == "returnedNull"

\* Line 106: after the last attempt, with lastSignature not confirmed, the
\* error is rethrown.
ExhaustedOutcome == "threw"

Exhausted(t) == t.st \in {"threw", "returnedNull"}

\* One iteration of the loop of sendAndConfirmWithRetry, lines 48-110.
TxStep(t, outcome) ==
  IF outcome = "confirmed"
    THEN [t EXCEPT !.st = "returned", !.last = "confirmed", !.executed = @ + 1]
  ELSE IF t.attempt < MAX_RETRIES_SEND
    THEN [t EXCEPT !.attempt = @ + 1, !.last = LastAfter(t, outcome),
                   !.executed = ExecutedAfter(t, outcome)]
  ELSE \* "Max retries reached, checking final status..."
       [t EXCEPT !.last = LastAfter(t, outcome),
                 !.executed = ExecutedAfter(t, outcome),
                 !.st = IF LastAfter(t, outcome) = "confirmed"
                          THEN "returned" ELSE ExhaustedOutcome]

\* Lines 50-60: lastSignature is already confirmed, nothing is submitted.
TxAlreadyConfirmed(t) == t.st = "sending" /\ t.last = "confirmed"

\* Whether this step of the transaction got it executed on the ledger.
Executes(t, outcome) == outcome \in {"confirmed", "landedLate"}

Accounts == 1..tokenAccounts

\* Lines 193-197 (and 404-408): the batch of account i (1-based).
BatchOf(i) == ((i - 1) \div HARVEST_BATCH_SIZE) + 1

NumBatches == (tokenAccounts + HARVEST_BATCH_SIZE - 1) \div HARVEST_BATCH_SIZE

BatchIds == 1..NumBatches

RECURSIVE SumWithheld(_, _)
SumWithheld(w, S) ==
  IF S = {} THEN 0
  ELSE LET i == CHOOSE x \in S : TRUE IN w[i] + SumWithheld(w, S \ {i})

\* Ledger effect of an executed harvest of batch b: the fees withheld in its
\* accounts move to the mint.
HarvestExecuted(b) ==
  /\ mintWithheld' =
       mintWithheld + SumWithheld(acctWithheld, {i \in Accounts : BatchOf(i) = b})
  /\ acctWithheld' = [i \in Accounts |-> IF BatchOf(i) = b THEN 0 ELSE acctWithheld[i]]

\* Ledger effect of an executed withdraw-from-mint.
WithdrawExecuted ==
  /\ destBalance' = destBalance + mintWithheld
  /\ mintWithheld' = 0

NoResult == [kind |-> "none", amount |-> 0]

\* What a failure inside withdrawFees becomes for its caller: revision A has no
\* try block (the exception propagates), revision B catches it and returns 0n.
FailureResult(rev) ==
  IF rev = "A" THEN [kind |-> "throw", amount |-> 0] ELSE [kind |-> "caught", amount |-> 0]

WithdrawIdle ==
  /\ tokenRev = "A"
  /\ wpc = "idle"
  /\ tokenAccounts = 0
  /\ harvest = <<>>
  /\ withdrawTx = TxIdle
  /\ wresult = NoResult
  /\ acctWithheld = <<>>
  /\ mintWithheld = 0
  /\ destBalance = 0
  /\ initialAmount = 0

\* The call is entered with any number of token accounts and withheld fees;
\* the destination account (the authority's account of the mint) may hold
\* what earlier cycles withdrew and carried or have not swapped yet.
InitWithdraw ==
  /\ tokenRev \in {"A", "B"}
  /\ wpc = "start"
  /\ tokenAccounts \in 0..MaxAccounts
  /\ harvest = [b \in BatchIds |-> TxIdle]
  /\ withdrawTx = TxIdle
  /\ wresult = NoResult
  /\ acctWithheld \in [Accounts -> 0..MaxWithheld]
  /\ mintWithheld = 0
  /\ destBalance \in 0..MaxDestBalance
  /\ initialAmount = 0

\* Lines 172-228 (383-413): the destination account, its initial balance, the
\* token accounts and their batches.  Revision A then starts every harvest at
\* once (batches.map(async ...)), revision B the first one.
WithdrawBegin ==
  /\ wpc = "start"
  /\ initialAmount' = destBalance
  /\ wpc' = "harvesting"
  /\ harvest' = [b \in BatchIds |->
                   IF tokenRev = "A" \/ b = 1 THEN TxStarted ELSE TxIdle]
  /\ UNCHANGED <<tokenRev, tokenAccounts, withdrawTx, wresult, acctWithheld,
                 mintWithheld, destBalance>>
  /\ UNCHANGED <<cycleVars, holderVars, rewardVars, ataVars, retryVars, pageVars>>

\* One of the first awaits fails (getOrCreateAssociatedTokenAccount,
\* getTokenAccountBalance, getTokenHolders of revision A).
WithdrawBeginFails ==
  /\ wpc = "start"
  /\ wpc' = "done"
  /\ wresult' = FailureResult(tokenRev)
  /\ UNCHANGED <<tokenRev, tokenAccounts, harvest, withdrawTx, acctWithheld,
                 mintWithheld, destBalance, initialAmount>>
  /\ UNCHANGED <<cycleVars, holderVars, rewardVars, ataVars, retryVars, pageVars>>

\* The call after harvest batch b settled with record t.  Revision A: a
\* rejected harvest rejects Promise.all (line 231) and with it withdrawFees,
\* while the other harvests keep running; a harvest that resolves, even with a
\* null signature (lines 221-227), lets Promise.all go on.
AfterHarvestA(b, t) ==
  IF wpc # "harvesting" THEN <<wpc, wresult>>
  ELSE IF t.st = "threw" THEN <<"done", FailureResult("A")>>
  ELSE <<wpc, wresult>>

\* Revision A, one pass of sendAndConfirmWithRetry for harvest batch b.
HarvestAttemptA(b) ==
  /\ tokenRev = "A"
  /\ harvest[b].st = "sending"
  /\ ~TxAlreadyConfirmed(harvest[b])
  /\ \E outcome \in SendOutcomes :
       LET t == TxStep(harvest[b], outcome)
       IN /\ harvest' = [harvest EXCEPT ![b] = t]
          /\ IF Executes(harvest[b], outcome)
               THEN HarvestExecuted(b)
               ELSE UNCHANGED <<acctWithheld, mintWithheld>>
          /\ wpc' = AfterHarvestA(b, t)[1]
          /\ wresult' = AfterHarvestA(b, t)[2]
  /\ UNCHANGED <<tokenRev, tokenAccounts, withdrawTx, destBalance, initialAmount>>
  /\ UNCHANGED <<cycleVars, holderVars, rewardVars, ataVars, retryVars, pageVars>>

\* Revision A, lines 50-60 for harvest batch b.
HarvestAlreadyConfirmedA(b) ==
  /\ tokenRev = "A"
  /\ TxAlreadyConfirmed(harvest[b])
  /\ harvest' = [harvest EXCEPT ![b].st = "returned"]
  /\ UNCHANGED <<tokenRev, wpc, tokenAccounts, withdrawTx, wresult, acctWithheld,
                 mintWithheld, destBalance, initialAmount>>
  /\ UNCHANGED <<cycleVars, holderVars, rewardVars, ataVars, retryVars, pageVars>>

\* Revision B, lines 415-426: harvestWithheldTokensToMint for the next batch
\* returns; the loop goes to the following batch.
HarvestReturnsB(b) ==
  /\ tokenRev = "B"
  /\ wpc = "harvesting"
  /\ harvest[b].st = "sending"
  /\ harvest' = [c \in BatchIds |->
                   IF c = b THEN [harvest[b] EXCEPT !.st = "returned",
                                                    !.last = "confirmed",
                                                    !.executed = 1]
                   ELSE IF c = b + 1 THEN TxStarted ELSE harvest[c]]
  /\ HarvestExecuted(b)
  /\ UNCHANGED <<tokenRev, wpc, tokenAccounts, withdrawTx, wresult, destBalance,
                 initialAmount>>
  /\ UNCHANGED <<cycleVars, holderVars, rewardVars, ataVars, retryVars, pageVars>>

\* Revision B, lines 415-426 and 451-454: harvestWithheldTokensToMint throws
\* (the ledger may have executed the transaction all the same); the catch
\* block returns 0n.
HarvestThrowsB(b) ==
  /\ tokenRev = "B"
  /\ wpc = "harvesting"
  /\ harvest[b].st = "sending"
  /\ \E landed \in BOOLEAN :
       /\ harvest' = [harvest EXCEPT ![b].st = "threw",
                                     ![b].executed = IF landed THEN 1 ELSE 0]
       /\ IF landed THEN HarvestExecuted(b)
                    ELSE UNCHANGED <<acctWithheld, mintWithheld>>
  /\ wpc' = "done"
  /\ wresult' = FailureResult("B")
  /\ UNCHANGED <<tokenRev, tokenAccounts, withdrawTx, destBalance, initialAmount>>
  /\ UNCHANGED <<cycleVars, holderVars, rewardVars, ataVars, retryVars, pageVars>>

\* (a withdrawFees that goes on as soon as every harvest was started)
HarvestsSettled_Started ==
  \A b \in BatchIds : harvest[b].st # "notStarted"

\* Promise.all resolved (revision A) or the harvest loop ended (revision B).
HarvestsSettled ==
  \A b \in BatchIds : harvest[b].st \in {"returned", "returnedNull"}

\* Lines 244-265 (428-438): the withdraw-from-mint transaction is built and
\* handed to sendAndConfirmWithRetry (withdrawWithheldTokensFromMint).
WithdrawSubmit ==
  /\ wpc = "harvesting"
  /\ HarvestsSettled
  /\ wpc' = "withdrawing"
  /\ withdrawTx' = TxStarted
  /\ UNCHANGED <<tokenRev, tokenAccounts, harvest, wresult, acctWithheld,
                 mintWithheld, destBalance, initialAmount>>
  /\ UNCHANGED <<cycleVars, holderVars, rewardVars, ataVars, retryVars, pageVars>>

\* Lines 268-278 (441-450): the final balance is read and the difference
\* returned.
ReturnedAmount(final) == [kind |-> "value", amount |-> final - initialAmount]

\* What the call delivers once the withdraw transaction settled with record t.
AfterWithdraw(t, final) ==
  IF t.st = "returned" THEN <<"done", ReturnedAmount(final)>>
  ELSE IF t.st = "threw" THEN <<"done", FailureResult("A")>>
  ELSE IF t.st = "returnedNull" THEN <<"done", ReturnedAmount(final)>>
  ELSE <<wpc, wresult>>

\* Revision A, one pass of sendAndConfirmWithRetry for the withdraw
\* transaction.
WithdrawAttemptA ==
  /\ tokenRev = "A"
  /\ wpc = "withdrawing"
  /\ withdrawTx.st = "sending"
  /\ ~TxAlreadyConfirmed(withdrawTx)
  /\ \E outcome \in SendOutcomes :
       LET t == TxStep(withdrawTx, outcome)
       IN /\ withdrawTx' = t
          /\ IF Executes(withdrawTx, outcome)
               THEN WithdrawExecuted
               ELSE UNCHANGED <<destBalance, mintWithheld>>
          /\ wpc' = AfterWithdraw(t, destBalance')[1]
          /\ wresult' = AfterWithdraw(t, destBalance')[2]
  /\ UNCHANGED <<tokenRev, tokenAccounts, harvest, acctWithheld, initialAmount>>
  /\ UNCHANGED <<cycleVars, holderVars, rewardVars, ataVars, retryVars, pageVars>>

\* Revision A, lines 50-60 for the withdraw transaction.
WithdrawAlreadyConfirmedA ==
  /\ tokenRev = "A"
  /\ wpc = "withdrawing"
  /\ TxAlreadyConfirmed(withdrawTx)
  /\ withdrawTx' = [withdrawTx EXCEPT !.st = "returned"]
  /\ wpc' = "done"
  /\ wresult' = ReturnedAmount(destBalance)
  /\ UNCHANGED <<tokenRev, tokenAccounts, harvest, acctWithheld, mintWithheld,
                 destBalance, initialAmount>>
  /\ UNCHANGED <<cycleVars, holderVars, rewardVars, ataVars, retryVars, pageVars>>

\* Revision B, lines 428-450: withdrawWithheldTokensFromMint returns.
WithdrawReturnsB ==
  /\ tokenRev = "B"
  /\ wpc = "withdrawing"
  /\ withdrawTx.st = "sending"
  /\ withdrawTx' = [withdrawTx EXCEPT !.st = "returned", !.last = "confirmed",
                                      !.executed = 1]
  /\ WithdrawExecuted
  /\ wpc' = "done"
  /\ wresult' = ReturnedAmount(destBalance')
  /\ UNCHANGED <<tokenRev, tokenAccounts, harvest, acctWithheld, initialAmount>>
  /\ UNCHANGED <<cycleVars, holderVars, rewardVars, ataVars, retryVars, pageVars>>

\* Revision B, lines 428-438 and 451-454: withdrawWithheldTokensFromMint (or
\* the final balance read) throws.
WithdrawThrowsB ==
  /\ tokenRev = "B"
  /\ wpc = "withdrawing"
  /\ withdrawTx.st = "sending"
  /\ \E landed \in BOOLEAN :
       /\ withdrawTx' = [withdrawTx EXCEPT !.st = "threw",
                                           !.executed = IF landed THEN 1 ELSE 0]
       /\ IF landed THEN WithdrawExecuted
                    ELSE UNCHANGED <<destBalance, mintWithheld>>
  /\ wpc' = "done"
  /\ wresult' = FailureResult("B")
  /\ UNCHANGED <<tokenRev, tokenAccounts, harvest, acctWithheld, initialAmount>>
  /\ UNCHANGED <<cycleVars, holderVars, rewardVars, ataVars, retryVars, pageVars>>

\* An overlapping cycle in distributeRewards: performJupiterSwap
\* (distribution.js:577-583) sells tokens of the mint out of the authority's
\* account, the destination account of this call, while this call is between
\* its two balance reads.
OtherCycleSwaps ==
  /\ wpc \in {"harvesting", "withdrawing"}
  /\ \E spent \in 1..destBalance : destBalance' = destBalance - spent
  /\ UNCHANGED <<tokenRev, wpc, tokenAccounts, harvest, withdrawTx, wresult,
                 acctWithheld, mintWithheld, initialAmount>>
  /\ UNCHANGED <<cycleVars, holderVars, rewardVars, ataVars, retryVars, pageVars>>

NextWithdraw ==
  \/ OtherCycleSwaps
  \/ WithdrawBegin
  \/ WithdrawBeginFails
  \/ \E b \in BatchIds :
       \/ HarvestAttemptA(b)
       \/ HarvestAlreadyConfirmedA(b)
       \/ HarvestReturnsB(b)
       \/ HarvestThrowsB(b)
  \/ WithdrawSubmit
  \/ WithdrawAttemptA
  \/ WithdrawAlreadyConfirmedA
  \/ WithdrawReturnsB
  \/ WithdrawThrowsB

----------------------------------------------------------------------------
\* The settlement-account cache of distributeToHolders (token payouts), in the
\* three revisions of services/distribution.js that resolve accounts through
\* it.  Line numbers are those of src/services/distribution.js unless a part
\* is named.  Every holder of this machine has a positive share and an
\* on-curve key; shares and the pool are those of SpecHolders.

AtaHolders == 1..MaxAtaHolders

\* The associated token account of a holder: an address derived from the
\* holder (and the mint).
AtaAddress(h) == h * BASE58_RADIX + h

RECURSIVE ToBase58(_)
\* address.toBase58(), lines 238 and 458: the digits of the address, most
\* significant first.
ToBase58(n) ==
  IF n < BASE58_RADIX THEN <<n>>
  ELSE Append(ToBase58(n \div BASE58_RADIX), n % BASE58_RADIX)

RECURSIVE FromBase58(_)
\* new PublicKey(holderAtaAddress), lines 192, 246 and 466.
FromBase58(digits) ==
  IF Len(digits) = 0 THEN 0
  ELSE FromBase58(SubSeq(digits, 1, Len(digits) - 1)) * BASE58_RADIX
         + digits[Len(digits)]

\* tokenAccountsCache[holder.address] of a holder without entry (undefined).
NoAddress == <<>>

\* What getAccountInfo can show of an account: it is not there, it is there
\* with no data, it has data and another owner than the token program, or it
\* is a token account.
AccountStates == {"absent", "empty", "foreign", "valid"}

\* `!ataInfo || ataInfo.data.length === 0`, lines 194, 228, 448 and 468.
IsEmpty(state) == state \in {"absent", "empty"}

\* Whether the revision looks at the ledger before it uses a cached address:
\* lines 191-204 and 465-473; part_003 lines 501-510 and 601-607; part_002
\* uses the entry as it is (lines 167-168 and 296-297).
ChecksCached(rev) == rev \in {"M", "P3"}

\* (a resolution that trusts no cached address)
CachedUsable_Never(rev, state) == FALSE

\* The test the cached account has to pass: line 194 (non-empty), part_003
\* line 504 (non-empty and owned by the token program).
CachedUsable(rev, state) ==
  IF rev = "P3" THEN state = "valid" ELSE ~IsEmpty(state)

\* What follows a cached address that failed the test: line 198 sets the local
\* holderAtaAddress to null (first pass), line 469 throws (second pass),
\* part_003 lines 506 and 605 delete the entry from the in-memory mapping.
OnInvalidCached(rev, pass) ==
  IF rev = "P3" THEN "delete" ELSE IF pass = 1 THEN "recreate" ELSE "throw"

\* Whether a creation is preceded by the SOL check: lines 210 and 430,
\* part_003 line 514 (first pass only).
ChecksSol(rev, pass) == rev = "M" \/ (rev = "P3" /\ pass = 1)

\* Whether the account is read again after getOrCreateAssociatedTokenAccount
\* returned: lines 227 and 447, part_003 line 400; not in part_002.
RereadsAfterCreate(rev) == rev \in {"M", "P3"}

\* Attempts of retryOperation around the creation: lines 217-237 and 437-457,
\* part_002 lines 170-179; createAndConfirmATA of part_003 calls
\* getOrCreateAssociatedTokenAccount once.
CreateRetries(rev) == IF rev = "P3" THEN 1 ELSE MAX_RETRIES_CREATE

CurHolder == IF apass = 1 THEN aidx + 1 ELSE afailed[aidx + 1]

PassLength == IF apass = 1 THEN MaxAtaHolders ELSE Len(afailed)

NoLookup == [cached |-> NoAddress, state |-> "absent"]

NoAtaEvent ==
  [op |-> "none", holder |-> 0, pass |-> 0, synced |-> TRUE, use |-> "none",
   address |-> 0, checked |-> "none", wrote |-> FALSE, reread |-> "none",
   creates |-> 0, invalid |-> FALSE, exhausted |-> FALSE, found |-> NoLookup]

\* The step being taken: the ledger operation it performs ("none" if it
\* performs none) and whether the JSON file equals the in-memory mapping when
\* it is performed.
StepEvent(op, creates) ==
  [NoAtaEvent EXCEPT !.op = op, !.holder = CurHolder, !.pass = apass,
                     !.synced = (tokenAccountsCache = cacheFile),
                     !.creates = creates, !.found = lookedUp]

AtaIdle ==
  /\ distRev = "M"
  /\ apass = 1
  /\ aidx = 0
  /\ apc = "idle"
  /\ createCalls = 0
  /\ lookedUp = NoLookup
  /\ solLow = FALSE
  /\ tokenAccountsCache = <<>>
  /\ cacheFile = <<>>
  /\ created = {}
  /\ ataLedger = <<>>
  /\ afailed = <<>>
  /\ abatch = <<>>
  /\ aev = NoAtaEvent

\* Line 112: the mapping is loaded from the JSON file; each holder has an
\* entry or none, and its account is in any state on the ledger.
InitAta ==
  /\ distRev \in {"M", "P2", "P3"}
  /\ apass = 1
  /\ aidx = 0
  /\ apc = "lookup"
  /\ createCalls = 0
  /\ lookedUp = NoLookup
  /\ solLow \in BOOLEAN
  /\ tokenAccountsCache \in
       {[h \in AtaHolders |-> IF h \in S THEN ToBase58(AtaAddress(h)) ELSE NoAddress] :
          S \in SUBSET AtaHolders}
  /\ cacheFile = tokenAccountsCache
  /\ created = {}
  /\ ataLedger \in [AtaHolders -> AccountStates]
  /\ afailed = <<>>
  /\ abatch = <<>>
  /\ aev = NoAtaEvent

AtaOthers == <<cycleVars, holderVars, withdrawVars, rewardVars, retryVars, pageVars>>

\* The iteration for the current holder ends with an exception.  First pass:
\* the catch block of lines 333-336 throws itself (`share` is out of scope) and
\* the call rejects; the catch blocks of part_002 (lines 184-191, 241-244) and
\* of part_003 (lines 553-558) queue the holder.  Second pass: the catch block
\* of lines 520-522 logs and goes on.
HolderFailed ==
  IF apass = 2
    THEN aidx' = aidx + 1 /\ apc' = "lookup" /\ UNCHANGED afailed
  ELSE IF distRev = "M"
    THEN apc' = "thrown" /\ UNCHANGED <<aidx, afailed>>
  ELSE /\ afailed' = Append(afailed, CurHolder)
       /\ aidx' = aidx + 1
       /\ apc' = "lookup"

\* tokenAccountsCache[holder.address] = address.toBase58() followed by
\* saveTokenAccountsCache: lines 240-241 and 460-461.
CacheAndSave(h) ==
  /\ tokenAccountsCache' = [tokenAccountsCache EXCEPT ![h] = ToBase58(AtaAddress(h))]
  /\ cacheFile' = tokenAccountsCache'
  /\ created' = created \cup {h}

\* Lines 188-191 (423-426): the cached address of the holder is looked up.
AtaLookup ==
  /\ apc = "lookup"
  /\ aidx < PassLength
  /\ LET h == CurHolder
         cached == tokenAccountsCache[h]
         found == [cached |-> cached, state |-> ataLedger[h]]
     IN /\ lookedUp' = found
        /\ createCalls' = 0
        /\ apc' = IF cached = NoAddress THEN "create"
                  ELSE IF ChecksCached(distRev) THEN "check" ELSE "add"
        /\ aev' = [StepEvent("none", 0) EXCEPT
                     !.found = found,
                     !.use = IF cached # NoAddress /\ ~ChecksCached(distRev)
                               THEN "cache" ELSE "none",
                     !.address = FromBase58(cached)]
  /\ UNCHANGED <<distRev, apass, aidx, solLow, tokenAccountsCache, cacheFile, created,
                 ataLedger, afailed, abatch>>
  /\ UNCHANGED AtaOthers

\* Lines 192-204 (466-473): getAccountInfo of the cached address.
AtaCheck ==
  /\ apc = "check"
  /\ LET h == CurHolder
         state == ataLedger[h]
         usable == CachedUsable(distRev, state)
         then == OnInvalidCached(distRev, apass)
     IN /\ aev' = [StepEvent("getAccountInfo", 0) EXCEPT
                     !.checked = state,
                     !.invalid = (state # "valid"),
                     !.use = IF usable THEN "cache" ELSE "none",
                     !.address = FromBase58(tokenAccountsCache[h])]
        /\ tokenAccountsCache' =
             IF ~usable /\ then = "delete"
               THEN [tokenAccountsCache EXCEPT ![h] = NoAddress]
               ELSE tokenAccountsCache
        /\ IF usable THEN apc' = "add" /\ UNCHANGED <<aidx, afailed>>
           ELSE IF then = "throw" THEN HolderFailed
           ELSE apc' = "create" /\ UNCHANGED <<aidx, afailed>>
  /\ UNCHANGED <<distRev, apass, createCalls, lookedUp, solLow, cacheFile, created,
                 ataLedger, abatch>>
  /\ UNCHANGED AtaOthers

\* Lines 192-193: getAccountInfo of the cached address rejects.
AtaCheckThrows ==
  /\ apc = "check"
  /\ aev' = StepEvent("getAccountInfo", 0)
  /\ HolderFailed
  /\ UNCHANGED <<distRev, apass, createCalls, lookedUp, solLow,
                 tokenAccountsCache, cacheFile, created, ataLedger, abatch>>
  /\ UNCHANGED AtaOthers

\* Lines 210-216 (430-436): "Insufficient SOL ... to create ATA".
AtaInsufficientSol ==
  /\ apc = "create"
  /\ createCalls = 0
  /\ ChecksSol(distRev, apass)
  /\ solLow
  /\ aev' = StepEvent("none", 0)
  /\ HolderFailed
  /\ UNCHANGED <<distRev, apass, createCalls, lookedUp, solLow,
                 tokenAccountsCache, cacheFile, created, ataLedger, abatch>>
  /\ UNCHANGED AtaOthers

\* What getOrCreateAssociatedTokenAccount leaves on the ledger when it
\* returns: the account is a token account, or the node the next read goes to
\* does not show it yet.
StatesAfterCreate(state) == {"valid", state} \ {"foreign"}

\* Lines 217-237 (437-457): one call of getOrCreateAssociatedTokenAccount
\* inside retryOperation; it returns the account, or throws (always, when the
\* address is held by another program).
AtaCreate ==
  /\ apc = "create"
  /\ ChecksSol(distRev, apass) => ~solLow
  /\ LET h == CurHolder
         calls == createCalls + 1
     IN /\ createCalls' = calls
        /\ \/ /\ ataLedger[h] # "foreign"
              /\ \E state \in StatesAfterCreate(ataLedger[h]) :
                   ataLedger' = [ataLedger EXCEPT ![h] = state]
              /\ IF RereadsAfterCreate(distRev)
                   THEN /\ apc' = "reread"
                        /\ aev' = StepEvent("getOrCreate", calls)
                        /\ UNCHANGED <<tokenAccountsCache, cacheFile, created>>
                   ELSE /\ apc' = "add"
                        /\ CacheAndSave(h)
                        /\ aev' = [StepEvent("getOrCreate", calls) EXCEPT
                                     !.wrote = TRUE, !.use = "created",
                                     !.address = AtaAddress(h)]
              /\ UNCHANGED <<aidx, afailed>>
           \/ /\ aev' = [StepEvent("getOrCreate", calls) EXCEPT
                           !.exhausted = (calls >= CreateRetries(distRev))]
              /\ IF calls < CreateRetries(distRev)
                   THEN UNCHANGED <<apc, aidx, afailed>>
                   ELSE HolderFailed
              /\ UNCHANGED <<tokenAccountsCache, cacheFile, created, ataLedger>>
  /\ UNCHANGED <<distRev, apass, lookedUp, solLow, abatch>>
  /\ UNCHANGED AtaOthers

\* Lines 227-244 (447-464): the account is read again.  Non-empty: the mapping
\* is set and saved.  Empty: the attempt of retryOperation fails (part_003
\* lines 400-402: createAndConfirmATA goes on with an explicit transaction).
AtaReread ==
  /\ apc = "reread"
  /\ LET h == CurHolder
         state == ataLedger[h]
     IN IF ~IsEmpty(state)
          THEN /\ CacheAndSave(h)
               /\ apc' = "add"
               /\ aev' = [StepEvent("getAccountInfo", createCalls) EXCEPT
                            !.wrote = TRUE, !.reread = state, !.use = "created",
                            !.address = AtaAddress(h)]
               /\ UNCHANGED <<aidx, afailed>>
        ELSE IF distRev = "P3"
          THEN /\ apc' = "explicit"
               /\ aev' = [StepEvent("getAccountInfo", createCalls) EXCEPT
                            !.reread = state]
               /\ UNCHANGED <<aidx, afailed, tokenAccountsCache, cacheFile, created>>
        ELSE /\ aev' = [StepEvent("getAccountInfo", createCalls) EXCEPT
                          !.reread = state,
                          !.exhausted = (createCalls >= CreateRetries(distRev))]
             /\ IF createCalls < CreateRetries(distRev)
                  THEN apc' = "create" /\ UNCHANGED <<aidx, afailed>>
                  ELSE HolderFailed
             /\ UNCHANGED <<tokenAccountsCache, cacheFile, created>>
  /\ UNCHANGED <<distRev, apass, createCalls, lookedUp, solLow, ataLedger, abatch>>
  /\ UNCHANGED AtaOthers

\* part_003 lines 403-415: createAndConfirmATA submits a transaction with
\* createAssociatedTokenAccountInstruction; it is confirmed or
\* sendAndConfirmWithRetry throws.
AtaExplicitCreate ==
  /\ apc = "explicit"
  /\ createCalls' = createCalls + 1
  /\ \/ /\ \E state \in StatesAfterCreate(ataLedger[CurHolder]) :
             ataLedger' = [ataLedger EXCEPT ![CurHolder] = state]
        /\ apc' = "reread2"
        /\ aev' = StepEvent("createTx", createCalls + 1)
        /\ UNCHANGED <<aidx, afailed>>
     \/ /\ aev' = [StepEvent("createTx", createCalls + 1) EXCEPT !.exhausted = TRUE]
        /\ HolderFailed
        /\ UNCHANGED ataLedger
  /\ UNCHANGED <<distRev, apass, lookedUp, solLow, tokenAccountsCache, cacheFile, created,
                 abatch>>
  /\ UNCHANGED AtaOthers

\* part_003 lines 416-421 and 517-521: the second read of createAndConfirmATA.
AtaRereadAgain ==
  /\ apc = "reread2"
  /\ LET h == CurHolder
         state == ataLedger[h]
     IN IF ~IsEmpty(state)
          THEN /\ CacheAndSave(h)
               /\ apc' = "add"
               /\ aev' = [StepEvent("getAccountInfo", createCalls) EXCEPT
                            !.wrote = TRUE, !.reread = state, !.use = "created",
                            !.address = AtaAddress(h)]
               /\ UNCHANGED <<aidx, afailed>>
          ELSE /\ aev' = [StepEvent("getAccountInfo", createCalls) EXCEPT
                            !.reread = state, !.exhausted = TRUE]
               /\ HolderFailed
               /\ UNCHANGED <<tokenAccountsCache, cacheFile, created>>
  /\ UNCHANGED <<distRev, apass, createCalls, lookedUp, solLow, ataLedger, abatch>>
  /\ UNCHANGED AtaOthers

\* Lines 256-272: the transfer instruction is added; the batch is not full.
AtaAddToBatch ==
  /\ apc = "add"
  /\ apass = 1
  /\ Len(abatch) + 1 < BATCH_SIZE
  /\ abatch' = Append(abatch, CurHolder)
  /\ aidx' = aidx + 1
  /\ apc' = "lookup"
  /\ aev' = StepEvent("none", createCalls)
  /\ UNCHANGED <<distRev, apass, createCalls, lookedUp, solLow,
                 tokenAccountsCache, cacheFile, created, ataLedger, afailed>>
  /\ UNCHANGED AtaOthers

\* The holders queued when the batch with `count` instructions failed in the
\* loop: holders[0..count-1] (lines 305-317); the holder being processed
\* (part_003 lines 543-547; part_002 lines 241-244, where the exception of
\* retryOperation reaches the catch block of the iteration).
QueuedOnBatchFailure(rev, h, count) ==
  IF rev = "M" THEN [i \in 1..count |-> i] ELSE <<h>>

\* What is left in batchTx after a batch was submitted in the loop: lines
\* 320-331 reset it; in part_002 the exception skips the reset of lines
\* 227-239.
BatchAfterSubmit(rev, batch, confirmed) ==
  IF rev = "P2" /\ ~confirmed THEN batch ELSE <<>>

\* Lines 256-332: the instruction is added and the batch is submitted.
AtaAddAndSubmit ==
  /\ apc = "add"
  /\ apass = 1
  /\ Len(abatch) + 1 >= BATCH_SIZE
  /\ \E confirmed \in BOOLEAN :
       /\ afailed' = IF confirmed THEN afailed
                     ELSE afailed \o QueuedOnBatchFailure(distRev, CurHolder,
                                                          Len(abatch) + 1)
       /\ abatch' = BatchAfterSubmit(distRev, Append(abatch, CurHolder), confirmed)
  /\ aidx' = aidx + 1
  /\ apc' = "lookup"
  /\ aev' = StepEvent("submit", createCalls)
  /\ UNCHANGED <<distRev, apass, createCalls, lookedUp, solLow,
                 tokenAccountsCache, cacheFile, created, ataLedger>>
  /\ UNCHANGED AtaOthers

\* Lines 482-519: second pass, the transfer is submitted as its own
\* transaction; whatever the outcome, the loop goes to the next entry.
AtaRetrySubmit ==
  /\ apc = "add"
  /\ apass = 2
  /\ aidx' = aidx + 1
  /\ apc' = "lookup"
  /\ aev' = StepEvent("submit", createCalls)
  /\ UNCHANGED <<distRev, apass, createCalls, lookedUp, solLow,
                 tokenAccountsCache, cacheFile, created, ataLedger, afailed, abatch>>
  /\ UNCHANGED AtaOthers

\* The loop over the holders is over (line 344).
AtaLoopEnds ==
  /\ apc = "lookup"
  /\ apass = 1
  /\ aidx >= PassLength
  /\ apc' = "finalBatch"
  /\ UNCHANGED <<distRev, apass, aidx, createCalls, lookedUp, solLow,
                 tokenAccountsCache, cacheFile, created, ataLedger, afailed, abatch, aev>>
  /\ UNCHANGED AtaOthers

\* The holders queued when the final batch failed: holders[0..count-1]
\* (lines 379-391); the last `count` holders of the list (part_003 lines
\* 572-575).
QueuedOnFinalFailure(rev, count) ==
  IF rev = "M" THEN [i \in 1..count |-> i]
  ELSE [i \in 1..count |-> MaxAtaHolders - count + i]

\* Lines 346-396: the remaining instructions are submitted (if any) and the
\* second pass begins.  part_002 lines 248-266 have no try block around the
\* submission.
AtaFinalBatch ==
  /\ apc = "finalBatch"
  /\ IF abatch = <<>>
       THEN /\ apass' = 2 /\ aidx' = 0 /\ apc' = "lookup"
            /\ aev' = NoAtaEvent
            /\ UNCHANGED afailed
       ELSE \E confirmed \in BOOLEAN :
              /\ aev' = [NoAtaEvent EXCEPT !.op = "submit",
                                           !.synced = (tokenAccountsCache = cacheFile)]
              /\ IF confirmed
                   THEN apass' = 2 /\ aidx' = 0 /\ apc' = "lookup" /\ UNCHANGED afailed
                 ELSE IF distRev = "P2"
                   THEN apc' = "thrown" /\ UNCHANGED <<apass, aidx, afailed>>
                 ELSE /\ apass' = 2 /\ aidx' = 0 /\ apc' = "lookup"
                      /\ afailed' = afailed \o QueuedOnFinalFailure(distRev, Len(abatch))
  /\ UNCHANGED <<distRev, createCalls, lookedUp, solLow, tokenAccountsCache,
                 cacheFile, created, ataLedger, abatch>>
  /\ UNCHANGED AtaOthers

\* Lines 524-529: the second pass is over, the call returns.
AtaDone ==
  /\ apc = "lookup"
  /\ apass = 2
  /\ aidx >= PassLength
  /\ apc' = "done"
  /\ UNCHANGED <<distRev, apass, aidx, createCalls, lookedUp, solLow,
                 tokenAccountsCache, cacheFile, created, ataLedger, afailed, abatch, aev>>
  /\ UNCHANGED AtaOthers

NextAta ==
  \/ AtaLookup
  \/ AtaCheck
  \/ AtaCheckThrows
  \/ AtaInsufficientSol
  \/ AtaCreate
  \/ AtaReread
  \/ AtaExplicitCreate
  \/ AtaRereadAgain
  \/ AtaAddToBatch
  \/ AtaAddAndSubmit
  \/ AtaRetrySubmit
  \/ AtaLoopEnds
  \/ AtaFinalBatch
  \/ AtaDone

----------------------------------------------------------------------------
\* The retry primitives: retryOperation (services/distribution.js lines 88-98,
\* index.js lines 20-33 and 157-170), fetchWithRetry (services/token.js lines
\* 18-37 and 322-337, services/swap.js lines 10-30), sendAndConfirmWithRetry
\* (services/token.js lines 39-111) and sendAndConfirmVersionedTxWithRetry
\* (services/swap.js lines 32-108).  One call of one of them.

Primitives ==
  {"retryOperation", "retryOperationIndex", "fetchWithRetry", "fetchWithRetryB",
   "sendAndConfirmWithRetry", "sendAndConfirmVersionedTxWithRetry"}

SendPrimitives == {"sendAndConfirmWithRetry", "sendAndConfirmVersionedTxWithRetry"}

\* maxRetries / retries of the call: no caller passes another value than the
\* default.
RetryLimit(prim) ==
  CASE prim = "retryOperation" -> MAX_RETRIES_CREATE
    [] prim = "retryOperationIndex" -> MAX_RETRIES_INDEX
    [] prim = "fetchWithRetry" -> FETCH_RETRIES
    [] prim = "fetchWithRetryB" -> FETCH_RETRIES_B
    [] OTHER -> MAX_RETRIES_SEND

\* (a loop that goes round once more after attempt maxRetries failed)
IsLastAttempt_OneLater(n, limit) == n = limit + 1

\* `attempt === maxRetries`: distribution.js line 94, index.js lines 26 and
\* 163, token.js lines 30, 93 and 330, swap.js lines 23 and 90.
IsLastAttempt(n, limit) == n = limit

\* What the primitive does after its last attempt failed: index.js lines
\* 26-29 and 163-166 return null, all the others rethrow the error.
ExhaustedResult(prim) ==
  IF prim = "retryOperationIndex" THEN "returnedNull" ELSE "threw"

NoRetryEvent ==
  [op |-> "none", attempt |-> 0, had |-> FALSE, result |-> "none",
   prevOp |-> "none", prevAttempt |-> 0, prevResult |-> "none", callsBefore |-> 0]

\* The step being taken, with what the step before it was.
RetryEvent(op, result) ==
  [op |-> op, attempt |-> attempt, had |-> (lastSignature # "null"),
   result |-> result, prevOp |-> tev.op, prevAttempt |-> tev.attempt,
   prevResult |-> tev.result, callsBefore |-> invocations]

RetryIdle ==
  /\ earlierPending = 0
  /\ executedCount = 0
  /\ primitive = "retryOperation"
  /\ tpc = "idle"
  /\ attempt = 0
  /\ lastSignature = "null"
  /\ sigStatus = "none"
  /\ invocations = 0
  /\ tev = NoRetryEvent

InitRetry ==
  /\ earlierPending = 0
  /\ executedCount = 0
  /\ primitive \in Primitives
  /\ tpc = "start"
  /\ attempt = 0
  /\ lastSignature = "null"
  /\ sigStatus = "none"
  /\ invocations = 0
  /\ tev = NoRetryEvent

RetryOthers == <<cycleVars, holderVars, withdrawVars, rewardVars, ataVars, pageVars>>

\* `for (let attempt = 1; ...`: the loop is entered.  The two send primitives
\* first await connection.getLatestBlockhash (token.js line 46, swap.js line
\* 39), which returns here.
RetryEnter ==
  /\ tpc = "start"
  /\ attempt' = 1
  /\ tpc' = "try"
  /\ tev' = RetryEvent("enter", "none")
  /\ UNCHANGED <<primitive, lastSignature, sigStatus, invocations>>
  /\ UNCHANGED <<earlierPending, executedCount>>
  /\ UNCHANGED RetryOthers

\* token.js line 46, swap.js line 39: getLatestBlockhash rejects before the
\* loop and outside its try block.
SendFirstBlockhashThrows ==
  /\ tpc = "start"
  /\ primitive \in SendPrimitives
  /\ tpc' = "threw"
  /\ tev' = RetryEvent("getLatestBlockhash", "threw")
  /\ UNCHANGED <<primitive, attempt, lastSignature, sigStatus, invocations>>
  /\ UNCHANGED <<earlierPending, executedCount>>
  /\ UNCHANGED RetryOthers

\* The catch block after a failed attempt (distribution.js lines 92-96 and
\* its likes): the last attempt ends the call, any other is followed by the
\* delay and the next attempt.
AfterFailedAttempt(next) ==
  IF IsLastAttempt(attempt, RetryLimit(primitive))
    THEN tpc' = next /\ UNCHANGED attempt
    ELSE tpc' = "try" /\ attempt' = attempt + 1

\* `return await operation()` / `return response`: the attempt succeeds.
OperationSucceeds ==
  /\ tpc = "try"
  /\ primitive \notin SendPrimitives
  /\ invocations' = invocations + 1
  /\ tpc' = "returned"
  /\ tev' = RetryEvent("call", "ok")
  /\ UNCHANGED <<primitive, attempt, lastSignature, sigStatus>>
  /\ UNCHANGED <<earlierPending, executedCount>>
  /\ UNCHANGED RetryOthers

\* operation() rejects; fetch rejects or answers with !response.ok.
OperationFails ==
  /\ tpc = "try"
  /\ primitive \notin SendPrimitives
  /\ invocations' = invocations + 1
  /\ AfterFailedAttempt(ExhaustedResult(primitive))
  /\ tev' = RetryEvent("call", "failed")
  /\ UNCHANGED <<primitive, lastSignature, sigStatus>>
  /\ UNCHANGED <<earlierPending, executedCount>>
  /\ UNCHANGED RetryOthers

\* What getSignatureStatus can answer for lastSignature: a pending
\* transaction may have been executed since it was submitted; the call itself
\* may reject.
LookupResults(status) ==
  CASE status = "confirmed" -> {"confirmed", "threw"}
    [] status = "pending" -> {"confirmed", "unconfirmed", "threw"}
    [] OTHER -> {"unconfirmed", "threw"}

\* A lookup that finds a pending lastSignature executed is the first to see
\* that execution.
ExecutedAtLookup(status, result) ==
  IF status = "pending" /\ result = "confirmed" THEN executedCount + 1
  ELSE executedCount

\* Whether the attempt put a new transaction on the ledger (token.js lines
\* 62-71: a fresh blockhash and a new signature on the same instructions).
Submitted(result) == result \in {"confirmThrew", "confirmedErr", "confirmed"}

\* The pending submissions that are no longer lastSignature: a new submission
\* replaces lastSignature, and the replaced one, if the lookup did not find it
\* executed or failed, can still land.
PendingAfter(pending, status, result) ==
  IF Submitted(result) /\ status = "pending" THEN pending + 1 ELSE pending

\* The catch block of the send primitives, token.js lines 90-109 (swap.js
\* lines 86-106): after the last attempt the status is looked up once more
\* if there is a signature.
AfterFailedSend(sig) ==
  AfterFailedAttempt(IF sig # "null" THEN "finalLookup" ELSE "threw")

\* token.js lines 50-60 (swap.js lines 44-54): the status of lastSignature is
\* looked up at the head of the attempt.
SendLookup ==
  /\ tpc = "try"
  /\ primitive \in SendPrimitives
  /\ lastSignature # "null"
  /\ \E result \in LookupResults(sigStatus) :
       /\ tev' = RetryEvent("lookup", result)
       /\ sigStatus' = IF result = "confirmed" THEN "confirmed" ELSE sigStatus
       /\ executedCount' = ExecutedAtLookup(sigStatus, result)
       /\ CASE result = "confirmed" -> tpc' = "returned" /\ UNCHANGED attempt
            [] result = "unconfirmed" -> tpc' = "submit" /\ UNCHANGED attempt
            [] OTHER -> AfterFailedSend(lastSignature)
  /\ UNCHANGED <<primitive, lastSignature, invocations, earlierPending>>
  /\ UNCHANGED RetryOthers

\* What the rest of the try block can meet (token.js lines 62-89):
\*   "blockhashThrew"  getLatestBlockhash rejected, nothing was sent;
\*   "sendThrew"       sendTransaction rejected, error.signature is not set;
\*   "confirmThrew"    sent, confirmTransaction rejected, error.signature is set;
\*   "confirmedErr"    sent, confirmation.value.err is set;
\*   "confirmed"       sent and confirmed.
SubmitResults == {"blockhashThrew", "sendThrew", "confirmThrew", "confirmedErr", "confirmed"}

\* lastSignature after the attempt: token.js lines 67 and 92; swap.js lines
\* 62 and 88-89, where tx.signatures[0] stands in when there is no other.
SignatureAfter(prim, sig, result) ==
  IF result \in {"confirmThrew", "confirmedErr", "confirmed"} THEN "submitted"
  ELSE IF sig # "null" THEN sig
  ELSE IF prim = "sendAndConfirmVersionedTxWithRetry" THEN "fallback"
  ELSE "null"

StatusAfter(status, result) ==
  CASE result = "confirmed" -> "confirmed"
    [] result = "confirmedErr" -> "failed"
    [] result = "confirmThrew" -> "pending"
    [] OTHER -> status

\* token.js lines 62-89 (swap.js lines 57-85): a fresh blockhash, the
\* submission and its confirmation.
SendSubmit ==
  /\ primitive \in SendPrimitives
  /\ \/ tpc = "submit"
     \/ tpc = "try" /\ lastSignature = "null"
  /\ \E result \in SubmitResults :
       LET sig == SignatureAfter(primitive, lastSignature, result)
       IN /\ tev' = RetryEvent("submit", result)
          /\ invocations' = IF result = "blockhashThrew" THEN invocations
                             ELSE invocations + 1
          /\ lastSignature' = sig
          /\ sigStatus' = StatusAfter(sigStatus, result)
          /\ earlierPending' = PendingAfter(earlierPending, sigStatus, result)
          /\ executedCount' = IF result = "confirmed" THEN executedCount + 1
                                ELSE executedCount
          /\ IF result = "confirmed"
               THEN tpc' = "returned" /\ UNCHANGED attempt
               ELSE AfterFailedSend(sig)
  /\ UNCHANGED primitive
  /\ UNCHANGED RetryOthers

\* token.js lines 94-106 (swap.js lines 91-103): "Max retries reached,
\* checking final status...".
SendFinalLookup ==
  /\ tpc = "finalLookup"
  /\ \E result \in LookupResults(sigStatus) :
       /\ tev' = RetryEvent("finalLookup", result)
       /\ sigStatus' = IF result = "confirmed" THEN "confirmed" ELSE sigStatus
       /\ executedCount' = ExecutedAtLookup(sigStatus, result)
       /\ tpc' = IF result = "confirmed" THEN "returned" ELSE "threw"
  /\ UNCHANGED <<primitive, attempt, lastSignature, invocations, earlierPending>>
  /\ UNCHANGED RetryOthers

\* The ledger executes a submission of this call that is still pending and
\* is no longer lastSignature: the blockhash it was signed with stays valid
\* for about a minute after confirmTransaction gave up on it.
EarlierLands ==
  /\ tpc \notin {"idle", "start"}
  /\ earlierPending > 0
  /\ earlierPending' = earlierPending - 1
  /\ executedCount' = executedCount + 1
  /\ UNCHANGED <<primitive, tpc, attempt, lastSignature, sigStatus, invocations, tev>>
  /\ UNCHANGED RetryOthers

NextRetry ==
  \/ RetryEnter
  \/ SendFirstBlockhashThrows
  \/ OperationSucceeds
  \/ OperationFails
  \/ SendLookup
  \/ SendSubmit
  \/ SendFinalLookup
  \/ EarlierLands

----------------------------------------------------------------------------
\* getTokenHolders (services/token.js): revision A is lines 122-167, revision
\* B lines 339-380.

\* The `limit` of the request (lines 134, 354), scaled.
PAGE_LIMIT == 3

\* The longest conversation with the collaborator that is explored.
MaxRequests == 4

PageOthers == <<cycleVars, holderVars, withdrawVars, rewardVars, ataVars, retryVars>>

PagesIdle ==
  /\ fetchRev = "A"
  /\ fpc = "idle"
  /\ page = 1
  /\ requested = <<>>
  /\ pageLengths = <<>>
  /\ allHolders = <<>>

\* Lines 143-145 (340-342).
InitPages ==
  /\ fetchRev \in {"A", "B"}
  /\ fpc = "fetching"
  /\ page = 1
  /\ requested = <<>>
  /\ pageLengths = <<>>
  /\ allHolders = <<>>

\* The entries of a page of the given length, as the collaborator sends them.
PageEntries(p, len) == [k \in 1..len |-> <<p, k>>]

\* Whether a page of this length ends the loop: line 151 stops on a page
\* shorter than the limit, line 363 on an empty (or missing) one only.
EndsPaging(rev, len) ==
  IF rev = "A" THEN len < PAGE_LIMIT ELSE len = 0

\* Lines 147-153 (344-368): one page is requested and received.
FetchPage ==
  /\ fpc = "fetching"
  /\ Len(requested) < MaxRequests
  /\ \E len \in 0..PAGE_LIMIT :
       /\ requested' = Append(requested, page)
       /\ pageLengths' = Append(pageLengths, len)
       /\ allHolders' = allHolders \o PageEntries(page, len)
       /\ IF EndsPaging(fetchRev, len)
            THEN /\ fpc' = "returned"
                 /\ page' = page
            ELSE /\ fpc' = "fetching"
                 /\ page' = page + 1
  /\ UNCHANGED fetchRev
  /\ UNCHANGED PageOthers

\* fetchWithRetry or response.json() rejects: revision A has no try block
\* (the call rejects), revision B leaves the loop at line 369-372 and returns
\* what it has.
FetchPageThrows ==
  /\ fpc = "fetching"
  /\ Len(requested) < MaxRequests
  /\ requested' = Append(requested, page)
  /\ fpc' = IF fetchRev = "A" THEN "thrown" ELSE "returned"
  /\ UNCHANGED <<fetchRev, page, pageLengths, allHolders>>
  /\ UNCHANGED PageOthers

NextPages ==
  \/ FetchPage
  \/ FetchPageThrows

----------------------------------------------------------------------------
\* Properties of the retry primitives.

\* C21: the send primitives look up the status of the last submitted
\* signature before every resubmission and once more after the last failed
\* attempt; a signature found confirmed is returned and nothing more is
\* submitted; they throw only after maxRetries attempts, with no signature or
\* with a last signature that the final lookup did not find confirmed.
C21_StatusLookedUpBeforeResubmission ==
  primitive \in SendPrimitives =>
    /\ tev.op = "submit" /\ tev.had =>
         /\ tev.prevOp = "lookup"
         /\ tev.prevAttempt = tev.attempt
         /\ tev.prevResult = "unconfirmed"
    /\ tev.op \in {"lookup", "finalLookup"} /\ tev.result = "confirmed" =>
         /\ tpc = "returned"
         /\ invocations = tev.callsBefore
    /\ tpc = "threw" =>
         /\ IsLastAttempt(attempt, RetryLimit(primitive))
         /\ lastSignature = "null" \/
              (tev.op = "finalLookup" /\ tev.result # "confirmed")

\* C24: every retry primitive makes at most maxRetries attempts (operation
\* calls, requests, submissions), stops at the first success, and ends after
\* the last failed attempt by rethrowing (index.js retryOperation: by
\* returning null).
C24_RetriesBounded ==
  /\ attempt <= RetryLimit(primitive)
  /\ invocations <= attempt
  /\ invocations <= RetryLimit(primitive)
  /\ tpc = "returned" /\ tev.op # "lookup" /\ tev.op # "finalLookup" =>
       /\ tev.result \in {"ok", "confirmed"}
       /\ invocations = tev.callsBefore + 1
  /\ tev.result \in {"ok", "confirmed"} => tpc = "returned"
  /\ tpc \in {"threw", "returnedNull"} /\ tev.op # "getLatestBlockhash" =>
       /\ attempt = RetryLimit(primitive)
       /\ tpc = ExhaustedResult(primitive)
  /\ primitive \notin SendPrimitives /\ tpc \in {"threw", "returnedNull"} =>
       invocations = RetryLimit(primitive)

\* A retry primitive has used up its attempts, every one of them a failure.
C24_Witness ==
  /\ tpc \in {"threw", "returnedNull"}
  /\ attempt = RetryLimit(primitive)
  /\ invocations = RetryLimit(primitive)

\* C37: within one call of a send primitive at most one of the transactions
\* it submitted is executed on the ledger.
C37_AtMostOneExecution ==
  primitive \in SendPrimitives => executedCount <= 1

----------------------------------------------------------------------------
\* Properties of the settlement-account cache.

\* C17: a cached settlement-account address is used as a transfer destination
\* only if the check of the same pass showed a token account (it exists, has
\* data and is owned by the token program); a cached address that fails the
\* check is treated as absent and the account is created again, in both
\* passes.
C17_CachedAddressCheckedBeforeUse ==
  /\ aev.use = "cache" => aev.checked = "valid"
  /\ aev.checked \notin {"none", "valid"} =>
       /\ apc = "create"
       /\ aev.holder = CurHolder
       /\ aev.pass = apass

\* C18: resolving a holder whose mapping is cached and whose account is on
\* the ledger yields the address that was cached at creation and calls
\* getOrCreateAssociatedTokenAccount not once.
C18_CachedAccountResolvedWithoutCreation ==
  lookedUp.cached # NoAddress /\ lookedUp.state = "valid" =>
    /\ apc \notin {"create", "reread", "explicit", "reread2"}
    /\ apc = "add" =>
         /\ aev.use = "cache"
         /\ aev.address = AtaAddress(CurHolder)
         /\ createCalls = 0

\* The second pass has resolved, from the cache, a holder whose account the
\* first pass of the same call created and cached.
C18_Witness ==
  /\ distRev = "M"
  /\ apass = 2
  /\ apc = "add"
  /\ CurHolder \in created
  /\ lookedUp.cached = ToBase58(AtaAddress(CurHolder))
  /\ lookedUp.state = "valid"
  /\ aev.use = "cache"
  /\ aev.address = AtaAddress(CurHolder)

\* C19: a mapping is added to the cache only after
\* getOrCreateAssociatedTokenAccount returned and a later read of the account
\* showed data; an empty read is followed by another creation, a holder has at
\* most 3 creations per pass, and when they are used up no mapping is added.
C19_MappingAddedAfterConfirmedCreation ==
  /\ aev.wrote =>
       /\ aev.reread \in {"foreign", "valid"}
       /\ aev.creates \in 1..MAX_RETRIES_CREATE
  /\ createCalls <= MAX_RETRIES_CREATE
  /\ IsEmpty(aev.reread) /\ aev.reread # "none" /\ ~aev.exhausted =>
       apc \in {"create", "explicit"}
  /\ aev.exhausted =>
       /\ ~aev.wrote
       /\ aev.creates >= 1
       /\ tokenAccountsCache[aev.holder] \in {NoAddress, aev.found.cached}

\* C20: whenever distributeToHolders performs a ledger operation (a read, a
\* creation, a submission), the JSON file holds the in-memory mapping.
C20_CacheFileFollowsMapping ==
  aev.op # "none" => aev.synced

----------------------------------------------------------------------------
\* Properties of distributeRewards.

C29_TreasurySentBeforeHolders ==
  /\ Len(treasuryTx) <= 1
  /\ \A k \in 1..Len(treasuryTx) :
       /\ treasuryTx[k].batches = 0
       /\ treasuryTx[k].amount = ((afterAmount - beforeAmount) * 17) \div 100
       /\ afterAmount - beforeAmount > 0
  /\ (hpc # "idle" \/ sent # <<>> \/ batchTx # <<>> \/ rpc \in {"holders", "done"}) =>
       Len(treasuryTx) = 1

----------------------------------------------------------------------------
\* Properties of distributeToHolders.

RECURSIVE SumShares(_)
SumShares(entries) ==
  IF entries = <<>> THEN 0 ELSE Head(entries).share + SumShares(Tail(entries))

\* C1: every share assigned to a holder lies between 0 and the pool, and the
\* running sum totalDistributed (the sum of the shares assigned so far) never
\* exceeds the pool, at any point of the loop.
C1_SharesWithinPool ==
  /\ totalDistributed = SumShares(assigned)
  /\ 0 <= totalDistributed /\ totalDistributed <= amount
  /\ \A k \in 1..Len(assigned) :
       /\ 0 <= assigned[k].share /\ assigned[k].share <= amount
       /\ assigned[k].before + assigned[k].share <= amount

C1_Witness ==
  /\ hpc = "done"
  /\ Len(assigned) >= 2
  /\ \E k \in 1..Len(assigned) :
       /\ assigned[k].truncated
       /\ assigned[k].share > 0
       /\ assigned[k].share < ComputeShare(holders[assigned[k].holder].amount, amount, isBtc)
  /\ totalDistributed = amount

\* C2: once a holder's share would push the running sum above the pool, the
\* share is cut to (pool - running sum), the running sum equals the pool, and
\* no holder after that one is assigned a share or put in a transaction.
C2_ClampEndsDistribution ==
  clampedAt # 0 =>
    /\ totalDistributed = amount
    /\ \A k \in 1..Len(assigned) :
         /\ assigned[k].holder <= clampedAt
         /\ assigned[k].truncated =>
              /\ assigned[k].holder = clampedAt
              /\ assigned[k].share = amount - assigned[k].before
    /\ \A n \in 1..Len(batchTx) : batchTx[n].holder <= clampedAt
    /\ \A k \in 1..Len(sent) :
         \A n \in 1..Len(sent[k].ops) : sent[k].ops[n].holder <= clampedAt

C2_Witness ==
  /\ hpc = "done"
  /\ clampedAt # 0 /\ clampedAt < Len(holders)
  /\ holderIndex = Len(holders)
  /\ \E k \in 1..Len(assigned) : assigned[k].truncated /\ assigned[k].holder = clampedAt
  /\ totalDistributed = amount

\* C12: when a first-pass batch finally fails, what is pushed to failedHolders
\* is exactly the content of that batch: the holders whose transfer
\* instructions it carries, each with the share put in the instruction.
C12_FailedBatchIsQueued ==
  \A k \in 1..Len(sent) :
    (sent[k].pass = 1 /\ ~sent[k].ok) => sent[k].requeued = sent[k].ops

\* C13: the second pass starts only after every first-pass batch has been
\* attempted, sends each queued entry once as a transaction of one transfer,
\* and when the call is over every queued entry has had its retry.
C13_OneSecondPassOverQueue ==
  /\ \A k \in 1..Len(sent) :
       sent[k].pass = 2 =>
         /\ Len(sent[k].ops) = 1
         /\ hpc \in {"retry", "done"}
         /\ \A j \in 1..Len(sent) : j > k => sent[j].pass = 2
  /\ retryIndex <= Len(failedHolders)
  /\ Cardinality({k \in 1..Len(sent) : sent[k].pass = 2}) <= retryIndex
  /\ hpc \in {"done", "thrown"} => retryIndex = Len(failedHolders)

\* C14: a failure while one holder is processed in the first pass stays with
\* that holder: the call does not throw and the holder is queued for the
\* second pass with its share.
C14_HolderFailureIsolated ==
  \A k \in 1..Len(assigned) :
    assigned[k].outcome = "threw" =>
      /\ hpc # "thrown"
      /\ \E j \in 1..Len(failedHolders) :
           /\ failedHolders[j].holder = assigned[k].holder
           /\ failedHolders[j].share = assigned[k].share

\* C15: a holder skipped as no valid destination is in no batch, is never in
\* failedHolders and is in no transaction of the first or the second pass.
C15_InvalidHolderNeverPaid ==
  \A k \in 1..Len(assigned) :
    assigned[k].outcome = "invalid" =>
      /\ \A n \in 1..Len(batchTx) : batchTx[n].holder # assigned[k].holder
      /\ \A j \in 1..Len(failedHolders) : failedHolders[j].holder # assigned[k].holder
      /\ \A j \in 1..Len(sent) :
           \A n \in 1..Len(sent[j].ops) : sent[j].ops[n].holder # assigned[k].holder

\* C16: every transaction submitted in the first pass carries between 1 and
\* BATCH_SIZE transfer instructions, after one priority-fee and one
\* compute-unit-limit instruction; the batch being filled never outgrows
\* BATCH_SIZE.
C16_BatchSizeWithinBounds ==
  /\ instructionsCount = Len(batchTx)
  /\ instructionsCount <= BATCH_SIZE
  /\ \A k \in 1..Len(sent) :
       sent[k].pass = 1 =>
         /\ 1 <= Len(sent[k].ops) /\ Len(sent[k].ops) <= BATCH_SIZE
         /\ sent[k].budget = <<"setComputeUnitPrice", "setComputeUnitLimit">>

C16_Witness ==
  /\ hpc = "done"
  /\ \E k \in 1..Len(sent) : sent[k].pass = 1 /\ Len(sent[k].ops) = BATCH_SIZE
  /\ \E k \in 1..Len(sent) : sent[k].pass = 1 /\ Len(sent[k].ops) < BATCH_SIZE
  /\ Len(assigned) > BATCH_SIZE

\* MINIMUM_BALANCE of unnamed/part_001 lines 362-364:
\* Math.ceil((DOLLARS_THRESHOLD / drtPriceUsd) * 10 ** DRT_DECIMALS), with the
\* price in USD per base unit.
MinimumBalance(price) == (DOLLARS_THRESHOLD + price - 1) \div price

\* The holders that have, at any point of the call, a share, an instruction
\* in a batch, an entry in failedHolders or an instruction in a submitted
\* transaction.
Served ==
  {assigned[k].holder : k \in 1..Len(assigned)}
    \cup {batchTx[n].holder : n \in 1..Len(batchTx)}
    \cup {failedHolders[j].holder : j \in 1..Len(failedHolders)}
    \cup UNION {{sent[j].ops[n].holder : n \in 1..Len(sent[j].ops)} : j \in 1..Len(sent)}

\* C26: there is a price of this distribution such that no holder with a
\* balance at or below the minimum balance at that price has a share, an
\* instruction in a batch, a place in the queue or a transfer.
C26_BelowMinimumNeverPaid ==
  \E price \in Prices :
    \A h \in Served : holders[h].amount > MinimumBalance(price)

\* Math.floor(shareFloat) of lines 150-152, before any minimum or clamp.
RawShare(h) == ComputeShare(holders[h].amount, amount, FALSE)

\* C27: in a wBTC payout a holder whose computed share is 0 gets a share of 1
\* unit, and is skipped only when nothing of the pool is left; in any other
\* payout a holder whose computed share is 0 is skipped: it has no share, no
\* instruction in a batch or a transaction and no place in the queue.
C27_MinimumUnitForBtcOnly ==
  /\ [](\A k \in 1..Len(assigned) :
          RawShare(assigned[k].holder) = 0 => isBtc /\ assigned[k].share = 1)
  /\ [](~isBtc => \A h \in Served : RawShare(h) > 0)
  /\ [][ ( /\ hpc = "loop"
           /\ holderIndex' = holderIndex + 1
           /\ assigned' = assigned )
         => /\ RawShare(holderIndex + 1) = 0 \/ totalDistributed >= amount
            /\ isBtc => totalDistributed >= amount
            /\ batchTx' = batchTx /\ failedHolders' = failedHolders /\ sent' = sent
       ]_vars

\* A wBTC payout in which a holder with computed share 0 was given 1 unit.
C27_Witness ==
  /\ isBtc
  /\ \E k \in 1..Len(assigned) :
       /\ RawShare(assigned[k].holder) = 0
       /\ assigned[k].share = 1
       /\ assigned[k].outcome = "added"

\* floor(balance * pool / TOTAL_SUPPLY) in exact integer arithmetic.
ExactShare(balance, pool) == (balance * pool) \div TOTAL_SUPPLY

\* C25: a share that was neither cut to the rest of the pool nor raised to the
\* wBTC minimum equals floor(balance * pool / TOTAL_SUPPLY) exactly; when the
\* balances add up to the supply and every division is exact, the shares add
\* up to the pool and none is cut.
C25_ShareIsExactFloor ==
  /\ \A k \in 1..Len(assigned) :
       LET exact == ExactShare(holders[assigned[k].holder].amount, amount)
       IN ~assigned[k].truncated /\ ~(isBtc /\ exact = 0) =>
            assigned[k].share = exact
  /\ ( /\ hpc = "done"
       /\ ~isBtc
       /\ SumBalances(holders) = TOTAL_SUPPLY
       /\ \A i \in 1..Len(holders) : (holders[i].amount * amount) % TOTAL_SUPPLY = 0 )
     => /\ totalDistributed = amount
        /\ \A k \in 1..Len(assigned) : ~assigned[k].truncated

\* The confirmed transfers to holder h: the places of `sent` (transaction,
\* instruction) that hold a transfer to h in a confirmed transaction.
ConfirmedTransfersTo(h) ==
  {kn \in (1..Len(sent)) \X (1..BATCH_SIZE) :
     /\ sent[kn[1]].ok
     /\ kn[2] <= Len(sent[kn[1]].ops)
     /\ sent[kn[1]].ops[kn[2]].holder = h}

\* C32: within one call no holder is the destination of more than one
\* confirmed transfer, the batches of the first pass and the retries of the
\* second counted together.
C32_AtMostOneConfirmedTransfer ==
  \A h \in 1..Len(holders) : Cardinality(ConfirmedTransfersTo(h)) <= 1

RECURSIVE ConfirmedSum(_)
\* The amounts of the transfers of the confirmed transactions among the first
\* k submitted.
ConfirmedSum(k) ==
  IF k = 0 THEN 0
  ELSE ConfirmedSum(k - 1) + (IF sent[k].ok THEN SumShares(sent[k].ops) ELSE 0)

\* C33: the amounts of all confirmed transfers of one call, both passes
\* together, never add up to more than the pool, and every transfer of the
\* second pass carries the share the first pass assigned to that holder.
C33_ConfirmedWithinPool ==
  /\ ConfirmedSum(Len(sent)) <= amount
  /\ \A k \in 1..Len(sent) :
       sent[k].pass = 2 =>
         \A n \in 1..Len(sent[k].ops) :
           \E j \in 1..Len(assigned) :
             /\ assigned[j].holder = sent[k].ops[n].holder
             /\ assigned[j].share = sent[k].ops[n].share

RECURSIVE FirstPassSum(_)
\* The shares of the transfer instructions of the first-pass batches among the
\* first k transactions submitted.
FirstPassSum(k) ==
  IF k = 0 THEN 0
  ELSE FirstPassSum(k - 1) + (IF sent[k].pass = 1 THEN SumShares(sent[k].ops) ELSE 0)

\* C38: totalDistributed equals the sum of the shares of the transfer
\* instructions added to batches (those submitted and, until the final batch
\* is submitted, the one being filled);
\* a holder skipped after its share was computed takes nothing from the pool.
C38_BudgetCountsAddedInstructionsOnly ==
  totalDistributed =
    FirstPassSum(Len(sent))
      + (IF hpc \in {"retry", "done"} THEN 0 ELSE SumShares(batchTx))

----------------------------------------------------------------------------
\* Properties of withdrawFees.

\* C9: if a harvest batch has exhausted its retries, the withdraw-from-mint
\* transaction is never submitted and the call reports no withdrawn amount.
C9_FailedHarvestAbortsWithdrawal ==
  (\E b \in BatchIds : Exhausted(harvest[b])) =>
     /\ withdrawTx.st = "notStarted"
     /\ withdrawTx.attempt = 0
     /\ wpc \in {"harvesting", "done"}
     /\ wresult.kind # "value"
     /\ wpc = "done" => wresult.kind \in {"throw", "caught"}

C9_Witness ==
  /\ tokenRev = "A"
  /\ NumBatches >= 2
  /\ Exhausted(harvest[2])
  /\ harvest[1].st = "returned"
  /\ harvest[2].attempt = MAX_RETRIES_SEND
  /\ mintWithheld > 0
  /\ wpc = "done" /\ wresult.kind = "throw"

\* The accounts of harvest batch b.
AccountsOfBatch(b) == {i \in Accounts : BatchOf(i) = b}

\* C30: the token accounts are cut into consecutive batches of at most
\* HARVEST_BATCH_SIZE, every account in exactly one batch and no batch empty;
\* there is one harvest transaction per batch; the withdraw-from-mint
\* transaction is handed over only once every harvest transaction is
\* confirmed, and a balance difference is returned only once the withdraw
\* transaction is confirmed.
C30_HarvestsThenWithdrawThenBalance ==
  /\ \A i \in Accounts : BatchOf(i) \in BatchIds
  /\ \A b \in BatchIds :
       AccountsOfBatch(b) =
         {i \in Accounts : /\ i > (b - 1) * HARVEST_BATCH_SIZE
                           /\ i <= b * HARVEST_BATCH_SIZE}
  /\ \A b \in BatchIds :
       /\ Cardinality(AccountsOfBatch(b)) >= 1
       /\ Cardinality(AccountsOfBatch(b)) <= HARVEST_BATCH_SIZE
  /\ DOMAIN harvest = BatchIds
  /\ (withdrawTx # TxIdle \/ wpc = "withdrawing" \/ wresult.kind = "value") =>
       \A b \in BatchIds :
         /\ harvest[b].st = "returned"
         /\ harvest[b].last = "confirmed"
         /\ harvest[b].executed >= 1
  /\ wresult.kind = "value" =>
       /\ withdrawTx.st = "returned"
       /\ withdrawTx.last = "confirmed"
       /\ withdrawTx.executed >= 1
       /\ wresult.amount = destBalance - initialAmount

C30_Witness ==
  /\ tokenRev = "A"
  /\ tokenAccounts > HARVEST_BATCH_SIZE
  /\ wresult.kind = "value"
  /\ \E b \in BatchIds : harvest[b].attempt > 1
  /\ withdrawTx.attempt > 1

\* C36: the amount withdrawFees returns, the final balance of the destination
\* account less its initial balance, is never negative.
C36_WithdrawnAmountNotNegative ==
  wresult.kind = "value" => wresult.amount >= 0

----------------------------------------------------------------------------
\* Properties of getTokenHolders.

\* The pages received so far that are shorter than the limit.
ShortPages == {k \in 1..Len(pageLengths) : pageLengths[k] < PAGE_LIMIT}

RECURSIVE ConcatPages(_)
ConcatPages(n) ==
  IF n = 0 THEN <<>> ELSE ConcatPages(n - 1) \o PageEntries(n, pageLengths[n])

\* C31: getTokenHolders requests pages 1, 2, 3, ... in order; it goes on only
\* while every page received was full, stops at the first page shorter than
\* the limit (empty included), and returns the concatenation of the pages up
\* to and including that one.
C31_PagesUntilFirstShortPage ==
  /\ \A k \in 1..Len(requested) : requested[k] = k
  /\ fpc = "fetching" => ShortPages = {}
  /\ fpc = "returned" =>
       /\ ShortPages = {Len(pageLengths)}
       /\ Len(requested) = Len(pageLengths)
       /\ allHolders = ConcatPages(Len(pageLengths))

----------------------------------------------------------------------------
\* Properties of the cycle orchestrator.

GateKinds == {"skip", "pass"}
EndKinds == {"skip", "distributed", "exhausted"}

\* C3: after a cycle that fails the USD gate, accumulatedAmount equals the
\* amount withdrawn in that cycle plus the carry as it was when the cycle
\* started.
C3_CarryIsWithdrawnPlusCarryAtStart ==
  ev.kind = "skip" => accumulatedAmount = ev.withdrawnAmount + ev.carryIn

\* C4: the USD gate is decided on the total pool (withdrawn + carry): a cycle
\* is skipped only if the total is below the threshold, and passes only if
\* the total is at or above it.
C4_GateOnTotalPool ==
  /\ ev.kind = "skip" => ev.totalBelow
  /\ ev.kind = "pass" => ~ev.totalBelow

C6_CarryZeroWhenPassedCycleEnds ==
  ev.kind \in {"distributed", "exhausted"} => accumulatedAmount = 0

\* C7: no invocation has executed `accumulatedAmount = 0n` while its
\* distribution attempt is still pending (before or during retryOperation).
C7_ZeroedOnlyAfterAttempt ==
  \A c \in Cycles :
    run[c].pc \in {"distributeRewards", "retryDelay"} => ~run[c].zeroed

\* C8: every cycle, whatever its outcome, has advanced currentOutputIndex
\* exactly once when it ends.
C8_IndexAdvancesOncePerCycle ==
  ev.kind \in EndKinds => ev.advanced = 1

\* C10: when withdrawFees failed, the cycle goes on with withdrawnAmount = 0:
\* it reaches the gate, its pool is the carry, and the carry is either kept
\* (skip) or handed to distributeRewards as the pool (pass).
C10_FailedWithdrawalKeepsCarry ==
  (ev.kind \in GateKinds /\ ev.wfFailed) =>
     /\ ev.withdrawnAmount = 0
     /\ ev.kind = "skip" =>
           accumulatedAmount = ev.carryAtGate /\ run[ev.cycle].pc = "done"
     /\ ev.kind = "pass" =>
           /\ run[ev.cycle].pc = "distributeRewards"
           /\ run[ev.cycle].totalAmount = ev.carryAtGate

C10_Witness ==
  /\ ev.kind = "skip" /\ ev.wfFailed /\ ev.carryAtGate > 0
  /\ accumulatedAmount = ev.carryAtGate

\* C22: at no time are two invocations of runDistribution in progress.
C22_OneRunAtATime ==
  Cardinality({c \in Cycles : run[c].pc \notin {"notStarted", "done"}}) <= 1

\* C23: no invocation of runDistribution ends with a rejected promise,
\* whatever failed in it (holders, price, withdrawal, every attempt of the
\* distribution), and the timer can start the next invocation whatever
\* became of the earlier ones.
C23_RunNeverRejects ==
  /\ \A c \in Cycles : ~run[c].rejected
  /\ \A c \in Cycles :
       run[c].pc # "notStarted" => run[c].pc \in {"withdrawFees", "distributeRewards",
                                                  "retryDelay", "done"}
  /\ started >= 1 /\ started < MaxCycles /\ run[1].pc = "done" =>
       ENABLED StartRun(started + 1)

\* An invocation has used up its attempts, each of which threw after a
\* failed withdrawal could not stop it; it has ended and the next one can
\* start.
C23_Witness ==
  /\ ev.kind = "exhausted"
  /\ ev.attempts = MAX_RETRIES_INDEX
  /\ run[ev.cycle].pc = "done"
  /\ ~run[ev.cycle].rejected
  /\ started = ev.cycle
  /\ ENABLED StartRun(ev.cycle + 1)

C34_OneSwapOnePayoutPerCycle ==
  /\ \A c \in Cycles : run[c].swaps <= 1 /\ run[c].payouts <= 1
  /\ ev.swaps <= 1 /\ ev.payouts <= 1

\* The invocations between their passed gate and the end of retryOperation.
Distributing == {c \in Cycles : run[c].pc \in {"distributeRewards", "retryDelay"}}

\* C35: with overlapping invocations every withdrawn unit is put in at most
\* one pool (the pools never take more than was withdrawn), and what is
\* carried when no distribution is under way is exactly what was withdrawn
\* and not yet pooled: no reset erased what another invocation accumulated.
C35_CarryCountedOnce ==
  /\ unpooled >= 0
  /\ Distributing = {} => accumulatedAmount = unpooled

\* C39: when distributeRewards returned without throwing on some attempt,
\* runDistribution takes the `if (success)` branch; it takes the failure
\* branch ("Distribution failed after retries") only after every attempt
\* threw.
C39_SuccessBranchAfterSuccess ==
  /\ (ev.kind = "distributed" /\ indexRev = "B") => ev.branch = "success"
  /\ ev.branch = "failure" =>
       ev.kind = "exhausted" /\ ev.attempts = MAX_RETRIES_INDEX

Init == InitCycle /\ HoldersIdle /\ WithdrawIdle /\ RewardsIdle /\ AtaIdle /\ RetryIdle /\ PagesIdle

Next == NextCycle

Spec == Init /\ [][Next]_vars

InitH == CycleIdle /\ InitHolders /\ WithdrawIdle /\ RewardsIdle /\ AtaIdle /\ RetryIdle /\ PagesIdle

SpecHolders == InitH /\ [][NextHolders]_vars

InitW == CycleIdle /\ HoldersIdle /\ InitWithdraw /\ RewardsIdle /\ AtaIdle /\ RetryIdle /\ PagesIdle

SpecWithdraw == InitW /\ [][NextWithdraw]_vars

InitR == InitRewards /\ WithdrawIdle /\ AtaIdle /\ RetryIdle /\ PagesIdle

InitA == CycleIdle /\ HoldersIdle /\ WithdrawIdle /\ RewardsIdle /\ InitAta /\ RetryIdle /\ PagesIdle

SpecAta == InitA /\ [][NextAta]_vars

InitT == CycleIdle /\ HoldersIdle /\ WithdrawIdle /\ RewardsIdle /\ AtaIdle /\ InitRetry /\ PagesIdle

SpecRetry == InitT /\ [][NextRetry]_vars

SpecRewards == InitR /\ [][NextRewards]_vars

InitP ==
  /\ CycleIdle /\ HoldersIdle /\ WithdrawIdle /\ RewardsIdle /\ AtaIdle
  /\ RetryIdle /\ InitPages

SpecPages == InitP /\ [][NextPages]_vars

====
